---- MODULE Spec2Model ----
(***************************************************************************)
(* Model of the abstract image generator: content analysis, the mapping of *)
(* metrics to visual parameters, the seeded linear congruential generator, *)
(* the seeded Perlin noise table and the generation request that ties them *)
(* together.                                                               *)
(*                                                                         *)
(* Representation of numbers.  JavaScript numbers are IEEE doubles.  Every *)
(* integer the program computes here is below 2^53, so double arithmetic   *)
(* is exact and is modelled by integer arithmetic.  Values of 32 bits do   *)
(* not fit the integers of the model checker, so a 32-bit word is a record *)
(* [hi, lo] of two 16-bit limbs (value = hi * 2^16 + lo).  Fractions are   *)
(* kept as integer numerators over a fixed, stated denominator.            *)
(***************************************************************************)
EXTENDS Integers, Sequences, FiniteSets, TLC

VARIABLES
    pc,            \* position of the current generation request
    item,          \* the request being processed: text and stroke overrides
    metrics,       \* ContentAnalyzer.analyze() result of the request
    visualParams,  \* SeedGenerator.generateVisualParams() result (+ strokes)
    rng,           \* the renderer's SeededRandom: [seed, current]
    ndraws,        \* number of random() calls made on rng
    noise,         \* the renderer's PerlinNoise: [seed, permutation]
    sample,        \* argument and result of the last PerlinNoise.get
    flows,         \* loop constants computed by drawOrganicFlows
    seen,          \* history: what the first request of each item produced
    nreq,          \* number of requests started
    fmt,           \* number of formats of the current item generated so far
    canvas,        \* the paint operations on the canvas, in order
    config,        \* the generation configuration: crop mode and formats
    renders,       \* history: number of generate() calls for the item
    master,        \* the master canvas generate() returned
    output,        \* the format asked for and the canvas applyCropMode made
    files,         \* the files generateForItem wrote, in order
    errors,        \* number of failures logged for the item
    logger,        \* the Logger: configuration, level, lines written
    imageData,     \* the pixel buffer drawNoiseTexture reads and writes
    batch,         \* the generate command: items, position and counters
    wp,            \* WordPressProvider.fetchAllPosts: site, page, posts
    web            \* the web application: sketches, canvases and timers

vars == <<pc, item, metrics, visualParams, rng, ndraws, noise, sample,
          flows, seen, nreq, fmt, canvas, config, renders, master, output,
          files, errors, logger, imageData, batch, wp, web>>

\* the value of a field that holds no object yet (null, undefined)
Nil == [nil |-> TRUE]

-----------------------------------------------------------------------------
(* Bounds of the model *)

\* number of random() calls followed on one generator
MaxDraws == 12
\* fractional sample positions are multiples of 1 / GridN
GridN == 4
\* lattice cells 0..MaxCell in each direction are sampled (and 255, 256)

MaxCell == 3
\* number of generation requests followed in one run
MaxRequests == 3
\* the list of items of the generate command has at most MaxItems items
MaxItems == 2
\* longest text enumerated over the alphabet
MaxLen == 3
\* the noise seeds 0..MaxSeed are tried (and some large ones)
MaxSeed == 11
\* HTML documents of 1..MaxBlocks <p> blocks are stripped
MaxBlocks == 3
\* the WordPress sites tried have 1..MaxPages pages of posts
MaxPages == 3
\* at most MaxLines calls of Logger.log are made
MaxLines == 3
\* the paragraph counts 0..MaxParagraphs are tried
MaxParagraphs == 50

-----------------------------------------------------------------------------
(* 32-bit words *)

Two16 == 2 ^ 16
Limb == 0 .. (Two16 - 1)

\* the word of a non-negative integer below 2^31
Word(n) == [hi |-> n \div Two16, lo |-> n % Two16]

IsWord32(w) == w.hi \in Limb /\ w.lo \in Limb

\* w1 < w2 as unsigned 32-bit values
WordLess(w1, w2) == w1.hi < w2.hi \/ (w1.hi = w2.hi /\ w1.lo < w2.lo)

\* (w1 + w2) mod 2^32
WordAdd(w1, w2) ==
    LET l == w1.lo + w2.lo
    IN  [hi |-> (w1.hi + w2.hi + (l \div Two16)) % Two16, lo |-> l % Two16]

ZeroWord == [hi |-> 0, lo |-> 0]

\* (w1 - w2) mod 2^32
WordSub(w1, w2) ==
    LET l == w1.lo - w2.lo
        borrow == IF l < 0 THEN 1 ELSE 0
    IN  [hi |-> (w1.hi - w2.hi - borrow) % Two16, lo |-> l % Two16]

-----------------------------------------------------------------------------
(* SeededRandom *)

LcgMultiplier == 1664525
LcgIncrement == 1013904223

\* this.current * 1664525 + 1013904223 as an exact integer, in four 16-bit
\* limbs p0 (lowest) .. p3
LcgProduct(current) ==
    LET al == LcgMultiplier % Two16
        ah == LcgMultiplier \div Two16
        t0 == (current.lo * al) + (LcgIncrement % Two16)
        t1 == (current.hi * al) + (current.lo * ah)
                + (LcgIncrement \div Two16) + (t0 \div Two16)
        t2 == (current.hi * ah) + (t1 \div Two16)
    IN  [p0 |-> t0 % Two16, p1 |-> t1 % Two16,
         p2 |-> t2 % Two16, p3 |-> t2 \div Two16]

\* the product is below 2^53: a double holds it exactly
ExactInDouble(p) == p.p3 < 2 ^ 5

\* a random() that reduces modulo 2^33 instead of 2^32
randomWide(g) ==
    LET p == LcgProduct(g.current)
    IN  [g EXCEPT !.current = [hi |-> p.p1 + ((p.p2 % 2) * Two16),
                               lo |-> p.p0]]

\* a random() that drops the increment
randomNoIncrement(g) ==
    LET p == LcgProduct(g.current)
    IN  [g EXCEPT !.current =
            WordSub([hi |-> p.p1, lo |-> p.p0],
                    [hi |-> LcgIncrement \div Two16,
                     lo |-> LcgIncrement % Two16])]

\* SeededRandom.random() on the generator g = [seed, current]: the generator
\* afterwards; the value returned to the caller is its current / 2^32
random(g) ==
    LET p == LcgProduct(g.current)
    IN  [g EXCEPT !.current = [hi |-> p.p1, lo |-> p.p0]]

\* a constructor that hands out the generator of the previous render, when
\* there is one, instead of a new one
SeededRandomShared(seed) ==
    IF rng = Nil THEN [seed |-> seed, current |-> seed] ELSE rng

\* new SeededRandom(seed)
SeededRandom(seed) == [seed |-> seed, current |-> seed]

\* Math.floor(r * n) for the draw r = current / 2^32 and 1 <= n <= 256
FloorScaled(current, n) ==
    ((current.hi * n) + ((current.lo * n) \div Two16)) \div Two16

-----------------------------------------------------------------------------
(* PerlinNoise *)

Swap(p, i, j) == [p EXCEPT ![i] = p[j], ![j] = p[i]]

\* one iteration of the Fisher-Yates loop, at index i, on st = [p, rng, js]:
\* the table so far, the generator, and the swap index j chosen at each i
ShuffleStep(st, i) ==
    LET g == random(st.rng)
        j == FloorScaled(g.current, i + 1)
    IN  [p |-> Swap(st.p, i, j), rng |-> g, js |-> [st.js EXCEPT ![i] = j]]

\* the iterations i = from, from - 1, ..., to of the loop, in that order.
\* The range is halved and the first half is evaluated to a value x before
\* the second half starts, which keeps the evaluation shallow.
RECURSIVE Shuffle(_, _, _)
Shuffle(st, from, to) ==
    IF from < to THEN st
    ELSE IF from = to THEN ShuffleStep(st, from)
    ELSE LET mid == (from + to) \div 2
         IN  CHOOSE r \in {Shuffle(x, mid, to) :
                              x \in {Shuffle(st, from, mid + 1)}} : TRUE

\* the whole loop for one seed, starting from the identity table
ShuffleFrom(seed) ==
    Shuffle([p |-> [i \in 0 .. 255 |-> i], rng |-> SeededRandom(seed),
             js |-> [i \in 1 .. 255 |-> 0]], 255, 1)

\* a table builder that shuffles but forgets to duplicate the table
generatePermutationShort(seed) ==
    LET p == ShuffleFrom(seed).p
    IN  [i \in 0 .. 511 |-> IF i < 256 THEN p[i] ELSE 0]

\* PerlinNoise.generatePermutation(seed): [...p, ...p]
generatePermutation(seed) ==
    LET p == ShuffleFrom(seed).p
    IN  [i \in 0 .. 511 |-> p[i % 256]]

\* new PerlinNoise(seed)
PerlinNoise(seed) == [seed |-> seed, permutation |-> generatePermutation(seed)]

\* denominators of the fixed-point values below
FadeDen == GridN ^ 5
ResDen == GridN * FadeDen * FadeDen

\* fade(t) for t = k / GridN, as a numerator over FadeDen
fade(k) == k * k * k * ((k * ((k * 6) - (15 * GridN))) + (10 * GridN * GridN))

\* lerp(a, b, t) for t a numerator over FadeDen; the result has the
\* denominator of a and b multiplied by FadeDen
lerp(a, b, t) == (a * FadeDen) + (t * (b - a))

\* grad(hash, x, y) for x and y numerators over GridN
grad(hash, x, y) ==
    LET h == hash % 4
        u == IF h < 2 THEN x ELSE y
        v == IF h < 2 THEN y ELSE x
    IN  (IF h % 2 = 0 THEN u ELSE -u) + (IF h \div 2 = 0 THEN v ELSE -v)

\* A sample point is [xi, xf, yi, yf]: x = xi + xf / GridN, y = yi + yf / GridN
\* with 0 <= xf, yf < GridN.

\* the four corner hashes read from the table
Corners(perm, pt) ==
    LET X == pt.xi % 256
        Y == pt.yi % 256
    IN  [aa |-> perm[perm[X] + Y],     ab |-> perm[perm[X] + Y + 1],
         ba |-> perm[perm[X + 1] + Y], bb |-> perm[perm[X + 1] + Y + 1]]

\* table indexes computed without the mask & 255
TableReadsUnmasked(perm, pt) ==
    LET X == pt.xi
        Y == pt.yi
    IN  [X |-> X, Y |-> Y,
         indexes |-> <<X, perm[X] + Y, X, perm[X] + Y + 1,
                       X + 1, perm[X + 1] + Y, X + 1, perm[X + 1] + Y + 1>>]

\* X, Y and the indexes of the eight reads of this.permutation in get(), in
\* the order of the source: for each of aa, ab, ba, bb the inner read first
TableReads(perm, pt) ==
    LET X == pt.xi % 256
        Y == pt.yi % 256
    IN  [X |-> X, Y |-> Y,
         indexes |-> <<X, perm[X] + Y, X, perm[X] + Y + 1,
                       X + 1, perm[X + 1] + Y, X + 1, perm[X + 1] + Y + 1>>]

\* the interpolated value res, as a numerator over ResDen
Interpolate(c, x, y) ==
    LET u == fade(x)
        v == fade(y)
    IN  lerp(lerp(grad(c.aa, x, y), grad(c.ba, x - GridN, y), u),
             lerp(grad(c.ab, x, y - GridN),
                  grad(c.bb, x - GridN, y - GridN), u),
             v)

\* a get that forgets to halve: res + 1, brought to the denominator 2 * ResDen
getNoHalf(perm, pt) ==
    2 * (Interpolate(Corners(perm, pt), pt.xf, pt.yf) + ResDen)

\* PerlinNoise.get(x, y) = (res + 1) / 2, as a numerator over 2 * ResDen
get(perm, pt) == Interpolate(Corners(perm, pt), pt.xf, pt.yf) + ResDen

-----------------------------------------------------------------------------
(* Text: a string is the sequence of its UTF-16 code units *)

Ch == [tab |-> 9, lf |-> 10, cr |-> 13, sp |-> 32, quot |-> 34, amp |-> 38,
       apos |-> 39, slash |-> 47, lt |-> 60, gt |-> 62, P |-> 80, p |-> 112]

\* the characters the regular expression class \s matches (and trim() removes)
IsSpace(c) ==
    c \in {9, 10, 11, 12, 13, 32, 160, 5760, 8232, 8233, 8239, 8287, 12288,
           65279} \cup (8192 .. 8202)

\* the characters the regular expression class \w matches
IsWordChar(c) == c \in (48 .. 57) \cup (65 .. 90) \cup {95} \cup (97 .. 122)

\* The code units of String.fromCharCode(c).toLowerCase() that are ASCII or
\* white space.  Two units above 127 lower-case to ASCII letters: U+0130
\* gives "i" followed by U+0307, and the Kelvin sign U+212A gives "k".  The
\* other units of a lower-cased text are above 127 and are not white space:
\* word.replace(/[^\w]/g, '') removes each of them, and no key of the level
\* table holds one, so they are left out here.
LowerUnits(c) ==
    IF c \in 65 .. 90 THEN <<c + 32>>
    ELSE IF c < 128 \/ IsSpace(c) THEN <<c>>
    ELSE IF c = 304 THEN <<105>>
    ELSE IF c = 8490 THEN <<107>>
    ELSE <<>>

\* s.toLowerCase(), its units above 127 that are not white space left out
RECURSIVE toLowerCaseKept(_)
toLowerCaseKept(s) ==
    IF s = <<>> THEN <<>>
    ELSE LowerUnits(Head(s)) \o toLowerCaseKept(Tail(s))

\* s.toLowerCase() has ASCII units only
LowersToAscii(s) == \A i \in 1 .. Len(s) : s[i] < 128 \/ s[i] = 8490

\* the first index k >= i with s[k] = c, or 0
RECURSIVE IndexFrom(_, _, _)
IndexFrom(s, c, i) ==
    IF i > Len(s) THEN 0
    ELSE IF s[i] = c THEN i ELSE IndexFrom(s, c, i + 1)

Drop(s, n) == SubSeq(s, n + 1, Len(s))

StartsWith(s, pat) == Len(s) >= Len(pat) /\ SubSeq(s, 1, Len(pat)) = pat

\* text.replace(/<[^>]*>/g, ' ')
RECURSIVE StripTags(_)
StripTags(s) ==
    IF s = <<>> THEN <<>>
    ELSE IF Head(s) = Ch.lt
         THEN LET k == IndexFrom(s, Ch.gt, 2)
              IN  IF k = 0 THEN s
                  ELSE <<Ch.sp>> \o StripTags(Drop(s, k))
         ELSE <<Head(s)>> \o StripTags(Tail(s))

\* s.replace(/pat/g, rep) for a literal pattern
RECURSIVE ReplaceAll(_, _, _)
ReplaceAll(s, pat, rep) ==
    IF Len(s) < Len(pat) THEN s
    ELSE IF StartsWith(s, pat)
         THEN rep \o ReplaceAll(Drop(s, Len(pat)), pat, rep)
         ELSE <<Head(s)>> \o ReplaceAll(Tail(s), pat, rep)

\* the six entities, in the order the code replaces them
Entities ==
    << [pat |-> <<38, 110, 98, 115, 112, 59>>, rep |-> <<Ch.sp>>],
       [pat |-> <<38, 97, 109, 112, 59>>,      rep |-> <<Ch.amp>>],
       [pat |-> <<38, 108, 116, 59>>,          rep |-> <<Ch.lt>>],
       [pat |-> <<38, 103, 116, 59>>,          rep |-> <<Ch.gt>>],
       [pat |-> <<38, 113, 117, 111, 116, 59>>, rep |-> <<Ch.quot>>],
       [pat |-> <<38, 35, 51, 57, 59>>,        rep |-> <<Ch.apos>>] >>

RECURSIVE DecodeEntities(_, _)
DecodeEntities(s, n) ==
    IF n > Len(Entities) THEN s
    ELSE DecodeEntities(ReplaceAll(s, Entities[n].pat, Entities[n].rep), n + 1)

\* the text after its leading run of white space
RECURSIVE SkipSpace(_)
SkipSpace(s) ==
    IF s # <<>> /\ IsSpace(Head(s)) THEN SkipSpace(Tail(s)) ELSE s

\* s.replace(/\s+/g, ' ')
RECURSIVE CollapseSpace(_)
CollapseSpace(s) ==
    IF s = <<>> THEN <<>>
    ELSE IF IsSpace(Head(s)) THEN <<Ch.sp>> \o CollapseSpace(SkipSpace(s))
         ELSE <<Head(s)>> \o CollapseSpace(Tail(s))

RECURSIVE TrimEnd(_)
TrimEnd(s) ==
    IF s # <<>> /\ IsSpace(s[Len(s)]) THEN TrimEnd(SubSeq(s, 1, Len(s) - 1))
    ELSE s

\* String.prototype.trim
Trim(s) == TrimEnd(SkipSpace(s))

\* ContentAnalyzer.cleanText(text)
cleanText(text) == Trim(CollapseSpace(DecodeEntities(StripTags(text), 1)))

\* s.split(/\s+/): the pieces between the runs of white space, empty pieces
\* at the ends included; cur is the piece being read
RECURSIVE SplitSpace(_, _)
SplitSpace(s, cur) ==
    IF s = <<>> THEN <<cur>>
    ELSE IF IsSpace(Head(s)) THEN <<cur>> \o SplitSpace(SkipSpace(s), <<>>)
         ELSE SplitSpace(Tail(s), Append(cur, Head(s)))

\* word.replace(/[^\w]/g, '')
StripNonWord(w) == SelectSeq(w, IsWordChar)

NonEmpty(w) == Len(w) > 0

\* pieces.map(f) for f = StripNonWord
MapStrip(ws) == [i \in 1 .. Len(ws) |-> StripNonWord(ws[i])]

\* a getWords that keeps the tokens left empty by the stripping
getWordsKeepEmpty(clean) ==
    MapStrip(SelectSeq(SplitSpace(toLowerCaseKept(clean), <<>>), NonEmpty))

\* ContentAnalyzer.getWords() on the cleaned text
getWords(clean) ==
    SelectSeq(MapStrip(SelectSeq(SplitSpace(toLowerCaseKept(clean), <<>>),
                                 NonEmpty)),
              NonEmpty)

\* the number of matches of /<p[^>]*>/gi in s
RECURSIVE CountPTags(_)
CountPTags(s) ==
    IF Len(s) < 2 THEN 0
    ELSE IF Head(s) = Ch.lt /\ s[2] \in {Ch.p, Ch.P}
         THEN LET k == IndexFrom(s, Ch.gt, 3)
              IN  IF k = 0 THEN 0 ELSE 1 + CountPTags(Drop(s, k))
         ELSE CountPTags(Tail(s))

\* the last index of the run of white space that starts at index i of s
\* (i - 1 when s[i] is not white space)
RECURSIVE SpaceRunEnd(_, _)
SpaceRunEnd(s, i) ==
    IF i <= Len(s) /\ IsSpace(s[i]) THEN SpaceRunEnd(s, i + 1) ELSE i - 1

\* the length of the match of /\n\s*\n|\r\n\s*\r\n/ at the start of s, or 0;
\* \s* is greedy, so the match ends at the last line break of the run
SeparatorLength(s) ==
    IF s # <<>> /\ Head(s) = Ch.lf
    THEN LET ks == {k \in 2 .. SpaceRunEnd(s, 2) : s[k] = Ch.lf}
         IN  IF ks = {} THEN 0 ELSE CHOOSE k \in ks : \A m \in ks : m <= k
    ELSE IF Len(s) >= 2 /\ s[1] = Ch.cr /\ s[2] = Ch.lf
    THEN LET ks == {k \in 3 .. (SpaceRunEnd(s, 3) - 1) :
                        s[k] = Ch.cr /\ s[k + 1] = Ch.lf}
         IN  IF ks = {} THEN 0
             ELSE (CHOOSE k \in ks : \A m \in ks : m <= k) + 1
    ELSE 0

\* rawContent.split(/\n\s*\n|\r\n\s*\r\n/); cur is the piece being read
RECURSIVE SplitParagraphs(_, _)
SplitParagraphs(s, cur) ==
    IF s = <<>> THEN <<cur>>
    ELSE LET n == SeparatorLength(s)
         IN  IF n > 0 THEN <<cur>> \o SplitParagraphs(Drop(s, n), <<>>)
             ELSE SplitParagraphs(Tail(s), Append(cur, Head(s)))

HasText(para) == Len(Trim(para)) > 0

\* ContentAnalyzer.getParagraphCount() on the raw text
getParagraphCount(raw) ==
    LET htmlParagraphs == CountPTags(raw)
        paragraphs == SelectSeq(SplitParagraphs(raw, <<>>), HasText)
    IN  IF htmlParagraphs > 0 THEN htmlParagraphs
        ELSE IF Len(paragraphs) > 1 THEN Len(paragraphs) ELSE 1

-----------------------------------------------------------------------------
(* The content hash.  A signed 32-bit integer is held as its two's         *)
(* complement word; a JavaScript number of magnitude up to 2^32 is         *)
(* [neg, mag] with mag a word.                                             *)

\* hash << 5
ShiftLeft5(w) ==
    [hi |-> ((w.hi * 32) + ((w.lo * 32) \div Two16)) % Two16,
     lo |-> (w.lo * 32) % Two16]

\* the number a two's complement word stands for
Int32Value(w) ==
    IF w.hi >= 2 ^ 15 THEN [neg |-> TRUE, mag |-> WordSub(ZeroWord, w)]
    ELSE [neg |-> FALSE, mag |-> w]

\* Math.abs
MathAbs(v) == [neg |-> FALSE, mag |-> v.mag]

\* an iteration that forgets to subtract: hash = (hash << 5) + char
HashStepTimes32(hash, char) ==
    WordAdd(ShiftLeft5(hash), [hi |-> 0, lo |-> char])

\* one iteration of the loop of hashContent and getHash:
\* hash = ((hash << 5) - hash) + char; hash = hash & hash
HashStep(hash, char) ==
    WordAdd(WordSub(ShiftLeft5(hash), hash), [hi |-> 0, lo |-> char])

\* the iterations for the characters from .. to of str, in that order.
\* The range is halved and the first half is evaluated to a value h before
\* the second half starts, which keeps the evaluation shallow.
RECURSIVE HashLoop(_, _, _, _)
HashLoop(str, hash, from, to) ==
    IF from > to THEN hash
    ELSE IF from = to THEN HashStep(hash, str[from])
    ELSE LET mid == (from + to) \div 2
         IN  CHOOSE r \in {HashLoop(str, h, mid + 1, to) :
                              h \in {HashLoop(str, hash, from, mid)}} : TRUE

\* a hash that returns the signed value, without Math.abs
hashContentSigned(str) == Int32Value(HashLoop(str, ZeroWord, 1, Len(str)))

\* SeedGenerator.hashContent(str)
hashContent(str) == MathAbs(Int32Value(HashLoop(str, ZeroWord, 1, Len(str))))

\* ContentAnalyzer.getHash() on the cleaned text
getHash(clean) == MathAbs(Int32Value(HashLoop(clean, ZeroWord, 1, Len(clean))))

\* v % 10 with the sign of the dividend, as the % of JavaScript
Rem10(v) ==
    LET m == (((v.mag.hi % 10) * 6) + v.mag.lo) % 10
    IN  IF v.neg THEN 0 - m ELSE m

-----------------------------------------------------------------------------
(* ContentAnalyzer.analyze and SeedGenerator *)

RECURSIVE SumLengths(_)
SumLengths(ws) == IF ws = <<>> THEN 0 ELSE Len(Head(ws)) + SumLengths(Tail(ws))

\* Math.round(avgWordLength * 10) for avgWordLength = sum / count: the
\* nearest integer, halves rounded up
RoundTenths(sum, count) == ((sum * 20) + count) \div (2 * count)

\* ContentAnalyzer.analyze() for new ContentAnalyzer(raw).
\* avgWordLength is in tenths (the code's value times 10).
analyze(raw) ==
    LET cleanContent == cleanText(raw)
        words == getWords(cleanContent)
        wordCount == Len(words)
    IN  [characters |-> Len(cleanContent),
         wordCount |-> wordCount,
         avgWordLength |-> IF wordCount > 0
                           THEN RoundTenths(SumLengths(words), wordCount)
                           ELSE 0,
         readingTime |-> (wordCount + 199) \div 200,
         paragraphCount |-> getParagraphCount(raw),
         words |-> words,
         cleanContent |-> cleanContent]

Min(a, b) == IF a < b THEN a ELSE b
Max(a, b) == IF a > b THEN a ELSE b

\* SeedGenerator.generateSeed()
generateSeed(m) ==
    (m.wordCount * 137) + (m.characters * 31) + ((m.avgWordLength * 17) \div 10)

\* a mapper that forgets the lower clamp of shapeVertices
generateVisualParamsNoFloor(m) ==
    [seed |-> generateSeed(m),
     density |-> Min(m.wordCount, 1000),
     complexity |-> Min(m.characters, 5000),
     smoothness |-> Min(m.avgWordLength, 100),
     layers |-> Min(m.readingTime, 10),
     shapeVertices |-> Min(m.paragraphCount, 20),
     paletteIndex |-> Rem10(hashContent(m.cleanContent))]

\* SeedGenerator.generateVisualParams().  density is in thousandths,
\* complexity in five-thousandths, smoothness in hundredths.
generateVisualParams(m) ==
    [seed |-> generateSeed(m),
     density |-> Min(m.wordCount, 1000),
     complexity |-> Min(m.characters, 5000),
     smoothness |-> Min(m.avgWordLength, 100),
     layers |-> Min(m.readingTime, 10),
     shapeVertices |-> Min(Max(m.paragraphCount, 3), 20),
     paletteIndex |-> Rem10(hashContent(m.cleanContent))]

-----------------------------------------------------------------------------
(* Numbers of the renderer.  The curves and their depth are computed in    *)
(* doubles; a double is held exactly, its mantissa as a natural number of  *)
(* several limbs, and every operation rounds as IEEE 754 does.             *)

\* the base of the limbs of a natural number held as a sequence, lowest
\* limb first, without zero limbs at the high end; <<>> is 0.  A limb has
\* 15 bits, so that the product of two limbs is below 2^31
LimbBase == 2 ^ 15

RECURSIVE BTrim(_)
BTrim(a) ==
    IF a = <<>> THEN a
    ELSE IF a[Len(a)] = 0 THEN BTrim(SubSeq(a, 1, Len(a) - 1))
    ELSE a

RECURSIVE BFromInt(_)
BFromInt(n) == IF n = 0 THEN <<>> ELSE <<n % LimbBase>> \o BFromInt(n \div LimbBase)

RECURSIVE BToInt(_)
BToInt(a) == IF a = <<>> THEN 0 ELSE Head(a) + (LimbBase * BToInt(Tail(a)))

RECURSIVE BCmpAt(_, _, _)
BCmpAt(a, b, i) ==
    IF i = 0 THEN 0
    ELSE IF a[i] > b[i] THEN 1
    ELSE IF a[i] < b[i] THEN -1
    ELSE BCmpAt(a, b, i - 1)

\* -1, 0 or 1 as a < b, a = b or a > b
BCmp(a, b) ==
    IF Len(a) > Len(b) THEN 1
    ELSE IF Len(a) < Len(b) THEN -1
    ELSE BCmpAt(a, b, Len(a))

RECURSIVE BAddC(_, _, _)
BAddC(a, b, carry) ==
    IF a = <<>> /\ b = <<>> THEN (IF carry = 0 THEN <<>> ELSE <<carry>>)
    ELSE LET x == (IF a = <<>> THEN 0 ELSE Head(a))
                    + (IF b = <<>> THEN 0 ELSE Head(b)) + carry
         IN  <<x % LimbBase>> \o BAddC(IF a = <<>> THEN a ELSE Tail(a),
                                   IF b = <<>> THEN b ELSE Tail(b),
                                   x \div LimbBase)

BAdd(a, b) == BAddC(a, b, 0)

RECURSIVE BSubC(_, _, _)
BSubC(a, b, borrow) ==
    IF a = <<>> THEN <<>>
    ELSE LET x == Head(a) - (IF b = <<>> THEN 0 ELSE Head(b)) - borrow
         IN  <<x % LimbBase>> \o BSubC(Tail(a), IF b = <<>> THEN b ELSE Tail(b),
                                   IF x < 0 THEN 1 ELSE 0)

\* a - b for a >= b
BSub(a, b) == BTrim(BSubC(a, b, 0))

\* a * k + carry for k < LimbBase
RECURSIVE BMulSmall(_, _, _)
BMulSmall(a, k, carry) ==
    IF a = <<>> THEN (IF carry = 0 THEN <<>> ELSE <<carry>>)
    ELSE LET x == (Head(a) * k) + carry
         IN  <<x % LimbBase>> \o BMulSmall(Tail(a), k, x \div LimbBase)

RECURSIVE BMul(_, _)
BMul(a, b) ==
    IF a = <<>> \/ b = <<>> THEN <<>>
    ELSE BAdd(BMulSmall(a, Head(b), 0), BTrim(<<0>> \o BMul(a, Tail(b))))

\* a * 2^n
BShl(a, n) ==
    IF a = <<>> THEN a
    ELSE [i \in 1 .. (n \div 15) |-> 0] \o BMulSmall(a, 2 ^ (n % 15), 0)

\* quotient and remainder of a by d, for 0 < d <= LimbBase, from the limb i down
RECURSIVE BDivSmallFrom(_, _, _, _)
BDivSmallFrom(a, d, i, rem) ==
    IF i = 0 THEN [q |-> <<>>, r |-> rem]
    ELSE LET cur == (rem * LimbBase) + a[i]
             rest == BDivSmallFrom(a, d, i - 1, cur % d)
         IN  [q |-> Append(rest.q, cur \div d), r |-> rest.r]

BDivSmall(a, d) ==
    LET qr == BDivSmallFrom(a, d, Len(a), 0)
    IN  [q |-> BTrim(qr.q), r |-> qr.r]

\* floor(a / 2^n)
BShr(a, n) ==
    IF n \div 15 >= Len(a) THEN <<>>
    ELSE BDivSmall(SubSeq(a, (n \div 15) + 1, Len(a)), 2 ^ (n % 15)).q

\* the number of bits of n < LimbBase
BitLength(n) == CHOOSE k \in 0 .. 15 : n < 2 ^ k /\ (k = 0 \/ n >= 2 ^ (k - 1))

\* the number of bits of a
BBits(a) == IF a = <<>> THEN 0 ELSE (15 * (Len(a) - 1)) + BitLength(a[Len(a)])

\* the number of zero bits at the low end of n, 0 < n < LimbBase
LowZeros(n) == CHOOSE k \in 0 .. 14 : n % (2 ^ k) = 0 /\ n % (2 ^ (k + 1)) # 0

\* the number of zero bits at the low end of a # 0
RECURSIVE BLowZeros(_)
BLowZeros(a) ==
    IF Head(a) = 0 THEN 15 + BLowZeros(Tail(a)) ELSE LowZeros(Head(a))

\* one step of the long division by b: the remainder is doubled and b is
\* taken from it if it fits; the bit goes to the quotient
DivBit(st, b) ==
    LET r2 == BMulSmall(st.r, 2, 0)
        ge == BCmp(r2, b) >= 0
    IN  [r |-> IF ge THEN BSub(r2, b) ELSE r2,
         q |-> BMulSmall(st.q, 2, IF ge THEN 1 ELSE 0)]

\* n steps of the long division; the range is halved and the first half
\* is evaluated before the second starts
RECURSIVE DivBits(_, _, _)
DivBits(st, b, n) ==
    IF n = 0 THEN st
    ELSE IF n = 1 THEN DivBit(st, b)
    ELSE CHOOSE r \in {DivBits(x, b, n - (n \div 2)) :
                          x \in {DivBits(st, b, n \div 2)}} : TRUE

\* quotient and remainder of a * 2^n by b, for a < 2 * b
BDivShifted(a, b, n) ==
    LET ge == BCmp(a, b) >= 0
    IN  DivBits([r |-> IF ge THEN BSub(a, b) ELSE a,
                 q |-> IF ge THEN <<1>> ELSE <<>>], b, n)

\* A double that is not negative is [m, e], the number m * 2^e with
\* 2^52 <= m < 2^53, and zero is [m |-> <<>>, e |-> 0].

DZero == [m |-> <<>>, e |-> 0]

\* the double nearest to (n + f) * 2^e, where 0 <= f < 1 and sticky says
\* f # 0; a tie goes to the even mantissa.  With sticky, n has more than 53
\* bits.
Round53(n, e, sticky) ==
    LET bits == BBits(n)
        k == bits - 53
    IN  IF n = <<>> THEN DZero
        ELSE IF k <= 0 THEN [m |-> BShl(n, 0 - k), e |-> e + k]
        ELSE LET q1 == BShr(n, k - 1)
                 low == sticky \/ BShl(q1, k - 1) # n
                 q == BShr(q1, 1)
                 up == (q1[1] % 2 = 1) /\ (low \/ (q[1] % 2 = 1))
                 m0 == IF up THEN BAdd(q, <<1>>) ELSE q
             IN  IF BBits(m0) = 54 THEN [m |-> BShr(m0, 1), e |-> e + k + 1]
                 ELSE [m |-> m0, e |-> e + k]

\* the double of an integer 0 <= n < 2^31
DInt(n) == Round53(BFromInt(n), 0, FALSE)

\* x + y
DAdd(x, y) ==
    IF x.m = <<>> THEN y
    ELSE IF y.m = <<>> THEN x
    ELSE LET lo == IF x.e < y.e THEN x.e ELSE y.e
         IN  Round53(BAdd(BShl(x.m, x.e - lo), BShl(y.m, y.e - lo)), lo, FALSE)

\* x * y
DMul(x, y) == Round53(BMul(x.m, y.m), x.e + y.e, FALSE)

\* x / y for y # 0: the quotient of the mantissas to 56 binary places; a
\* divisor whose odd part is below LimbBase is divided by limb by limb
DDiv(x, y) ==
    IF x.m = <<>> THEN DZero
    ELSE LET tz == BLowZeros(y.m)
             odd == BShr(y.m, tz)
             qr == IF Len(odd) = 1
                   THEN BDivSmall(BShl(x.m, 56 - tz), odd[1])
                   ELSE LET st == BDivShifted(x.m, y.m, 56)
                        IN  [q |-> st.q, r |-> IF st.r = <<>> THEN 0 ELSE 1]
         IN  Round53(qr.q, x.e - y.e - 56, qr.r # 0)

\* -1, 0 or 1 as x < y, x = y or x > y
DCmp(x, y) ==
    IF x.m = <<>> \/ y.m = <<>>
    THEN (IF x.m = y.m THEN 0 ELSE IF x.m = <<>> THEN -1 ELSE 1)
    ELSE IF x.e > y.e THEN 1
    ELSE IF x.e < y.e THEN -1
    ELSE BCmp(x.m, y.m)

\* Math.min(x, y)
DMin(x, y) == IF DCmp(x, y) <= 0 THEN x ELSE y


\* Math.floor(x), for x < 2^31
DFloor(x) ==
    IF x.m = <<>> THEN 0
    ELSE IF x.e >= 0 THEN BToInt(BShl(x.m, x.e))
    ELSE BToInt(BShr(x.m, 0 - x.e))

\* the double a decimal literal n / d denotes, and the quotient of two
\* integers
Literal(n, d) == DDiv(DInt(n), DInt(d))

\* the literals 0.5, 0.1 and 0.005 of the renderer
Half == Literal(1, 2)
Tenth == Literal(1, 10)
FiveThousandths == Literal(5, 1000)

\* the double next above x # 0
Above(x) == Round53(BAdd(x.m, <<1>>), x.e, FALSE)

\* x * GridN, a multiple of 1 / GridN being a point of the grid of the noise
\* model, is an integer
IsGridValue(x) ==
    x.m = <<>> \/ x.e >= 0
        \/ BLowZeros(BMulSmall(x.m, GridN, 0)) >= 0 - x.e

\* Math.floor(x * GridN)
GridIndex(x) == DFloor([m |-> BMulSmall(x.m, GridN, 0), e |-> x.e])

-----------------------------------------------------------------------------
(* VisualGeneratorNode *)

initColorPalettes ==
    << [bg |-> <<"#FF6B6B", "#FFE66D">>,
        accents |-> <<"#4ECDC4", "#FF6B9D", "#C44569">>],
       [bg |-> <<"#667eea", "#764ba2">>,
        accents |-> <<"#f093fb", "#4facfe", "#43e97b">>],
       [bg |-> <<"#134E5E", "#71B280">>,
        accents |-> <<"#A8E6CF", "#DCEDC1", "#FFD3B6">>],
       [bg |-> <<"#A770EF", "#CF8BF3">>,
        accents |-> <<"#FDB99B", "#E8D5B7", "#B8E1DD">>],
       [bg |-> <<"#0F2027", "#203A43", "#2C5364">>,
        accents |-> <<"#F857A6", "#FF5858", "#FFC371">>],
       [bg |-> <<"#FFA07A", "#FF6B9D">>,
        accents |-> <<"#C44569", "#8B4367", "#1F4068">>],
       [bg |-> <<"#56CCF2", "#2F80ED">>,
        accents |-> <<"#6FCF97", "#F2C94C", "#EB5757">>],
       [bg |-> <<"#D4A5A5", "#9A86A4">>,
        accents |-> <<"#6C9A8B", "#E9B384", "#F4F2DE">>],
       [bg |-> <<"#FF9A8B", "#FF6A88">>,
        accents |-> <<"#FF99AC", "#FFEAA7", "#74B9FF">>],
       [bg |-> <<"#00B4DB", "#0083B0">>,
        accents |-> <<"#74EBD5", "#ACB6E5", "#86A8E7">>] >>

\* this.colorPalettes[index]: the table is indexed from 0; an index outside
\* the table reads undefined
PaletteAt(index) ==
    IF index \in 0 .. (Len(initColorPalettes) - 1)
    THEN initColorPalettes[index + 1] ELSE Nil

\* this.params.smoothness: Math.min(avgWordLength / 10, 1), where
\* avgWordLength is Math.round(..) / 10
Smoothness(params) ==
    DMin(DDiv(DDiv(DInt(params.smoothness), DInt(10)), DInt(10)), DInt(1))

\* const noiseScale = 0.005 / (this.params.smoothness + 0.1)
noiseScale(params) ==
    DDiv(FiveThousandths, DAdd(Smoothness(params), Tenth))

\* loop constants without the lower bound of three layers
FlowConstantsNoMinimum(params) ==
    [numLayers |-> params.layers,
     numFlows |-> 5 + ((params.density * 10) \div 1000),
     noiseScale |-> noiseScale(params),
     shapeVertices |-> IF params.shapeVertices = 0 THEN 8
                       ELSE params.shapeVertices]

\* the loop constants drawOrganicFlows computes from the parameters
FlowConstants(params) ==
    [numLayers |-> Max(3, params.layers),
     numFlows |-> 5 + ((params.density * 10) \div 1000),
     noiseScale |-> noiseScale(params),
     shapeVertices |-> IF params.shapeVertices = 0 THEN 8
                       ELSE params.shapeVertices]

-----------------------------------------------------------------------------
(* Numbers of the crop arithmetic.  The widths and heights are integers    *)
(* below 2^12; a quotient or a product of them is a double, held exactly:  *)
(* the fraction num / den the real arithmetic gives, and the rounding      *)
(* error err / errden of the double in units of 2^-52.  The double is      *)
(* num / den + (err / errden) * 2^-52.                                     *)

Num(n) == [num |-> n, den |-> 1, err |-> 0, errden |-> 1]

\* the exponent e with 2^e <= b / c < 2^(e + 1), for b, c >= 1
RECURSIVE Log2Ratio(_, _)
Log2Ratio(b, c) ==
    IF b < c THEN Log2Ratio(2 * b, c) - 1
    ELSE IF b >= 2 * c THEN Log2Ratio(b, 2 * c) + 1
    ELSE 0

\* 2^k mod c
RECURSIVE Pow2Mod(_, _)
Pow2Mod(k, c) ==
    IF k = 0 THEN 1 % c
    ELSE LET h == Pow2Mod(k \div 2, c)
         IN  (h * h * (IF k % 2 = 1 THEN 2 ELSE 1)) % c

RECURSIVE Gcd(_, _)
Gcd(a, b) == IF b = 0 THEN a ELSE Gcd(b, a % b)

\* The double a * (b / c).  The quotient b / c is rounded to 53 bits: with
\* 2^e <= b / c < 2^(e + 1) it is Q / 2^(52 - e) for the integer Q nearest
\* to b * 2^(52 - e) / c, which is off by D / c with R the remainder of
\* b * 2^(52 - e) by c (no tie arises for c < 2^12).  The product of a and
\* the rounded quotient is a * b / c + a * D / (c * 2^(52 - e)); it is
\* rounded to 53 bits again, to nearest and to the even neighbour in a tie:
\* in units of 2^(E - 52), with 2^E <= product < 2^(E + 1), the product is
\* F + W / Z for the integer part F of a * b * 2^(52 - E) / c and its
\* remainder S, and the double is F + r for the integer r nearest to W / Z.
TimesQuotient(a, b, c) ==
    LET e == Log2Ratio(b, c)
        R == (b * Pow2Mod(52 - e, c)) % c
        D == IF R = 0 THEN 0 ELSE IF 2 * R < c THEN 0 - R ELSE c - R
        E0 == Log2Ratio(a * b, c)
        power == IF E0 >= 0 THEN a * b = c * (2 ^ E0)
                 ELSE a * b * (2 ^ (0 - E0)) = c
        E == IF power /\ D < 0 THEN E0 - 1 ELSE E0
        S == (((a * b) % c) * Pow2Mod(52 - E, c)) % c
        Fodd == ((((a * b) % (2 * c)) * Pow2Mod(52 - E, 2 * c)) % (2 * c)) >= c
        W == (S * (2 ^ (E - e))) + (a * D)
        Z == c * (2 ^ (E - e))
        below == W \div Z
        rest == W % Z
        r == IF 2 * rest < Z THEN below
             ELSE IF 2 * rest > Z THEN below + 1
             ELSE IF Fodd = (below % 2 = 1) THEN below ELSE below + 1
        n == (r * c) - S
        g == Gcd(a * b, c)
    IN  [num |-> (a * b) \div g, den |-> c \div g,
         err |-> IF E >= 0 THEN n * (2 ^ E) ELSE n,
         errden |-> IF E >= 0 THEN c ELSE c * (2 ^ (0 - E))]

\* the double (v - t) / 2 for an integer t: both steps are exact
HalfDifference(v, t) ==
    [num |-> v.num - (t * v.den), den |-> 2 * v.den,
     err |-> v.err, errden |-> 2 * v.errden]

\* -1, 0 or 1 as the fraction n1 / d1 is below, equal to or above n2 / d2,
\* for d1, d2 > 0: the integer parts are compared, then the remainders
CompareFractions(n1, d1, n2, d2) ==
    LET q1 == n1 \div d1
        q2 == n2 \div d2
        r1 == (n1 % d1) * d2
        r2 == (n2 % d2) * d1
    IN  IF q1 < q2 \/ (q1 = q2 /\ r1 < r2) THEN -1
        ELSE IF q1 = q2 /\ r1 = r2 THEN 0 ELSE 1

\* -1, 0 or 1 as the number v is below, equal to or above w: two different
\* fractions of these sizes are further apart than any rounding error
Compare(v, w) ==
    LET c == CompareFractions(v.num, v.den, w.num, w.den)
    IN  IF c # 0 THEN c
        ELSE CompareFractions(v.err, v.errden, w.err, w.errden)

\* v < 0, v >= t and v <= w for numbers v, w and an integer t
IsNegative(v) == Compare(v, Num(0)) < 0
AtLeast(v, t) == Compare(v, Num(t)) >= 0
NotAbove(v, w) == Compare(v, w) <= 0

\* the conversion of a canvas width or height to an unsigned integer: the
\* fraction is dropped
ToUint32(v) ==
    IF v.num % v.den = 0
    THEN (v.num \div v.den) - (IF v.err < 0 THEN 1 ELSE 0)
    ELSE v.num \div v.den

-----------------------------------------------------------------------------
(* ImageGenerator: the master canvas and the two crop modes.  A canvas is  *)
(* its width, its height and the drawImage calls made on it, in order.     *)

\* const masterSize = 1200 of generateFormat
MasterSize == 1200

\* formatMap of getFormats
formatMap ==
    [landscape |-> [name |-> "landscape", width |-> 1200, height |-> 628],
     square |-> [name |-> "square", width |-> 1200, height |-> 1200]]

\* the functions a plain object inherits from Object.prototype, each with
\* its property name: the function of "constructor" is named "Object", the
\* others as their property
ObjectPrototype ==
    [n \in {"constructor", "toString",
             "toLocaleString",
             "valueOf",
             "hasOwnProperty",
             "isPrototypeOf",
             "propertyIsEnumerable",
             "__defineGetter__",
             "__defineSetter__",
             "__lookupGetter__",
             "__lookupSetter__"} |->
        [name |-> IF n = "constructor" THEN "Object" ELSE n]]

\* formatMap[name]: the format of the name; for a name formatMap does not
\* have, the property inherited from Object.prototype (a function, which
\* has a name and no width or height; for "__proto__" Object.prototype
\* itself, which has none of the three), and undefined for any other name
PropertyOf(name) ==
    IF name \in DOMAIN formatMap THEN formatMap[name]
    ELSE IF name \in DOMAIN ObjectPrototype THEN ObjectPrototype[name]
    ELSE IF name = "__proto__" THEN [constructor |-> ObjectPrototype.constructor]
    ELSE Nil

\* getFormats(): the configured names looked up in formatMap, in order
getFormats(cfg) ==
    [i \in 1 .. Len(cfg.formats) |-> PropertyOf(cfg.formats[i])]

\* the default filenamePattern "{id}-{format}.png"
FilenamePattern ==
    <<123, 105, 100, 125, 45, 123, 102, 111, 114, 109, 97, 116, 125, 46, 112, 110, 103>>

\* "{id}" and "{format}"
HoleId == <<123, 105, 100, 125>>
HoleFormat == <<123, 102, 111, 114, 109, 97, 116, 125>>

\* the code units of the names of the formats, of the functions of
\* Object.prototype and of "undefined"
NameUnits ==
    [n \in {"landscape", "square", "Object", "undefined"}
               \cup (DOMAIN ObjectPrototype \ {"constructor"}) |->
        CASE n = "landscape" -> <<108, 97, 110, 100, 115, 99, 97, 112, 101>>
          [] n = "square" -> <<115, 113, 117, 97, 114, 101>>
          [] n = "Object" -> <<79, 98, 106, 101, 99, 116>>
          [] n = "undefined" -> <<117, 110, 100, 101, 102, 105, 110, 101, 100>>
          [] n = "toString" ->
                <<116, 111, 83, 116, 114, 105, 110, 103>>
          [] n = "toLocaleString" ->
                <<116, 111, 76, 111, 99, 97, 108, 101, 83, 116, 114, 105, 110, 103>>
          [] n = "valueOf" ->
                <<118, 97, 108, 117, 101, 79, 102>>
          [] n = "hasOwnProperty" ->
                <<104, 97, 115, 79, 119, 110, 80, 114, 111, 112, 101, 114, 116, 121>>
          [] n = "isPrototypeOf" ->
                <<105, 115, 80, 114, 111, 116, 111, 116, 121, 112, 101, 79, 102>>
          [] n = "propertyIsEnumerable" ->
                <<112, 114, 111, 112, 101, 114, 116, 121, 73, 115, 69, 110, 117, 109, 101, 114, 97, 98, 108, 101>>
          [] n = "__defineGetter__" ->
                <<95, 95, 100, 101, 102, 105, 110, 101, 71, 101, 116, 116, 101, 114, 95, 95>>
          [] n = "__defineSetter__" ->
                <<95, 95, 100, 101, 102, 105, 110, 101, 83, 101, 116, 116, 101, 114, 95, 95>>
          [] n = "__lookupGetter__" ->
                <<95, 95, 108, 111, 111, 107, 117, 112, 71, 101, 116, 116, 101, 114, 95, 95>>
          [] n = "__lookupSetter__" ->
                <<95, 95, 108, 111, 111, 107, 117, 112, 83, 101, 116, 116, 101, 114, 95, 95>>]

\* the text of ${format.name}: an absent name is undefined
FormatName(format) ==
    IF "name" \in DOMAIN format THEN NameUnits[format.name]
    ELSE NameUnits["undefined"]

\* the position of the first occurrence of pat in s from position k on, or 0
RECURSIVE IndexOf(_, _, _)
IndexOf(s, pat, k) ==
    IF k + Len(pat) - 1 > Len(s) THEN 0
    ELSE IF SubSeq(s, k, k + Len(pat) - 1) = pat THEN k
    ELSE IndexOf(s, pat, k + 1)

\* GetSubstitution for a string pattern (no captures): in the replacement
\* "$$" is "$", "$&" the match, "$`" the text before the match and "$'" the
\* text after it; any other "$" stands for itself
RECURSIVE GetSubstitution(_, _, _, _)
GetSubstitution(matched, str, position, replacement) ==
    IF replacement = <<>> THEN <<>>
    ELSE IF Head(replacement) = 36 /\ Len(replacement) >= 2
                /\ replacement[2] \in {36, 38, 96, 39}
    THEN (CASE replacement[2] = 36 -> <<36>>
            [] replacement[2] = 38 -> matched
            [] replacement[2] = 96 -> SubSeq(str, 1, position - 1)
            [] replacement[2] = 39 ->
                   SubSeq(str, position + Len(matched), Len(str)))
             \o GetSubstitution(matched, str, position,
                                Tail(Tail(replacement)))
    ELSE <<Head(replacement)>>
             \o GetSubstitution(matched, str, position, Tail(replacement))

\* String.prototype.replace with a string pattern: the first occurrence is
\* replaced by the expansion of the replacement
ReplaceFirst(str, pattern, replacement) ==
    LET k == IndexOf(str, pattern, 1)
    IN  IF k = 0 THEN str
        ELSE SubSeq(str, 1, k - 1)
                 \o GetSubstitution(pattern, str, k, replacement)
                 \o SubSeq(str, k + Len(pattern), Len(str))

\* getFileName(id, format)
getFileName(cfg, id, format) ==
    ReplaceFirst(ReplaceFirst(cfg.filenamePattern, HoleId, id),
                 HoleFormat, format)

\* createCanvas(width, height)
createCanvas(width, height) ==
    [width |-> ToUint32(width), height |-> ToUint32(height), draws |-> <<>>]

\* ctx.drawImage(image, sx, sy, sw, sh, dx, dy, dw, dh) on the canvas cv
drawImage(cv, image, sx, sy, sw, sh, dx, dy, dw, dh) ==
    [cv EXCEPT !.draws =
        Append(@, [image |-> image, sx |-> sx, sy |-> sy, sw |-> sw,
                   sh |-> sh, dx |-> dx, dy |-> dy, dw |-> dw, dh |-> dh])]

\* a scaling that fits the master inside the target instead of covering it
resizeAndCropContain(cv, sourceCanvas, targetWidth, targetHeight) ==
    LET sourceWidth == sourceCanvas.width
        sourceHeight == sourceCanvas.height
        wider == sourceWidth * targetHeight > targetWidth * sourceHeight
        scaleWidth ==
            IF wider THEN Num(targetWidth)
            ELSE TimesQuotient(sourceWidth, targetHeight, sourceHeight)
        scaleHeight ==
            IF wider
            THEN TimesQuotient(sourceHeight, targetWidth, sourceWidth)
            ELSE Num(targetHeight)
        sourceX == IF wider THEN Num(0)
                   ELSE HalfDifference(scaleWidth, targetWidth)
        sourceY == IF wider THEN HalfDifference(scaleHeight, targetHeight)
                   ELSE Num(0)
        tempCanvas ==
            drawImage(createCanvas(scaleWidth, scaleHeight), sourceCanvas,
                      Num(0), Num(0), Num(sourceWidth), Num(sourceHeight),
                      Num(0), Num(0), scaleWidth, scaleHeight)
    IN  drawImage(cv, tempCanvas, sourceX, sourceY, Num(targetWidth),
                  Num(targetHeight), Num(0), Num(0), Num(targetWidth),
                  Num(targetHeight))

\* resizeAndCrop(ctx, sourceCanvas, targetWidth, targetHeight).  The two
\* aspect ratios are correctly rounded quotients of integers below 2^12, so
\* they compare as the fractions do.
resizeAndCrop(cv, sourceCanvas, targetWidth, targetHeight) ==
    LET sourceWidth == sourceCanvas.width
        sourceHeight == sourceCanvas.height
        wider == sourceWidth * targetHeight > targetWidth * sourceHeight
        scaleWidth ==
            IF wider
            THEN TimesQuotient(sourceWidth, targetHeight, sourceHeight)
            ELSE Num(targetWidth)
        scaleHeight ==
            IF wider THEN Num(targetHeight)
            ELSE TimesQuotient(sourceHeight, targetWidth, sourceWidth)
        sourceX == IF wider THEN HalfDifference(scaleWidth, targetWidth)
                   ELSE Num(0)
        sourceY == IF wider THEN Num(0)
                   ELSE HalfDifference(scaleHeight, targetHeight)
        tempCanvas ==
            drawImage(createCanvas(scaleWidth, scaleHeight), sourceCanvas,
                      Num(0), Num(0), Num(sourceWidth), Num(sourceHeight),
                      Num(0), Num(0), scaleWidth, scaleHeight)
    IN  drawImage(cv, tempCanvas, sourceX, sourceY, Num(targetWidth),
                  Num(targetHeight), Num(0), Num(0), Num(targetWidth),
                  Num(targetHeight))

\* a direct crop that copies the rectangle in the middle of the source
applyCropModeCentered(sourceCanvas, targetWidth, targetHeight, cropMode) ==
    LET cv == createCanvas(Num(targetWidth), Num(targetHeight))
    IN  IF cropMode = "resize"
        THEN resizeAndCrop(cv, sourceCanvas, targetWidth, targetHeight)
        ELSE drawImage(cv, sourceCanvas,
                       Num((sourceCanvas.width - targetWidth) \div 2),
                       Num((sourceCanvas.height - targetHeight) \div 2),
                       Num(targetWidth), Num(targetHeight),
                       Num(0), Num(0), Num(targetWidth), Num(targetHeight))

\* applyCropMode(sourceCanvas, targetWidth, targetHeight) under the
\* configured crop mode
applyCropMode(sourceCanvas, targetWidth, targetHeight, cropMode) ==
    LET cv == createCanvas(Num(targetWidth), Num(targetHeight))
    IN  IF cropMode = "resize"
        THEN resizeAndCrop(cv, sourceCanvas, targetWidth, targetHeight)
        ELSE drawImage(cv, sourceCanvas, Num(0), Num(0), Num(targetWidth),
                       Num(targetHeight), Num(0), Num(0), Num(targetWidth),
                       Num(targetHeight))

\* the pixel (x, y) of a canvas whose drawImage calls copy whole pixels
\* without scaling: the pixel of the image the last call covering (x, y)
\* copied there; the part of a source rectangle outside the image copies
\* nothing, and a pixel no call reached stays transparent
PixelAt(cv, x, y) ==
    LET hits == {k \in 1 .. Len(cv.draws) :
                    LET d == cv.draws[k]
                        u == d.sx.num + (x - d.dx.num)
                        v == d.sy.num + (y - d.dy.num)
                    IN  /\ x >= d.dx.num /\ x < d.dx.num + d.dw.num
                        /\ y >= d.dy.num /\ y < d.dy.num + d.dh.num
                        /\ u >= 0 /\ u < d.image.width
                        /\ v >= 0 /\ v < d.image.height}
    IN  IF hits = {} \/ x >= cv.width \/ y >= cv.height THEN Nil
        ELSE LET d == cv.draws[CHOOSE k \in hits : \A j \in hits : j <= k]
             IN  [image |-> d.image, x |-> d.sx.num + (x - d.dx.num),
                  y |-> d.sy.num + (y - d.dy.num)]

-----------------------------------------------------------------------------
(* Inputs *)

TextHello ==
    <<72, 101, 108, 108, 111, 32, 119, 111, 114, 108, 100, 46, 32, 84, 104,
      105, 115, 32, 105, 115, 32, 97, 32, 116, 101, 115, 116, 46>>
\* "aaaaaaa": the 32-bit hash is negative before Math.abs
TextNegative == <<97, 97, 97, 97, 97, 97, 97>>
\* "xfjfxtf": the 32-bit hash is -2^31 before Math.abs
TextMinInt == <<120, 102, 106, 102, 120, 116, 102>>
\* "<p>Hi</p><p>yo</p>"
TextHtml ==
    <<60, 112, 62, 72, 105, 60, 47, 112, 62, 60, 112, 62, 121, 111, 60, 47,
      112, 62>>
\* "A&amp;lt;b &nbsp; c"
TextEntities ==
    <<65, 38, 97, 109, 112, 59, 108, 116, 59, 98, 32, 38, 110, 98, 115, 112,
      59, 32, 99>>
\* "one\n\ntwo\r\n\r\nthree"
TextParagraphs ==
    <<111, 110, 101, 10, 10, 116, 119, 111, 13, 10, 13, 10, 116, 104, 114,
      101, 101>>
\* "x_1 -- y2!"
TextSymbols == <<120, 95, 49, 32, 45, 45, 32, 121, 50, 33>>
\* "<pre>a</pre><pre>b</pre>": two tags of an element that is not p
TextPre ==
    <<60, 112, 114, 101, 62, 97, 60, 47, 112, 114, 101, 62, 60, 112, 114,
    101, 62, 98, 60, 47, 112, 114, 101, 62>>
\* "  ": nothing but white space
TextBlank == <<32, 32>>
\* U+0130, no-break space, the Kelvin sign, "Ab", U+00C0, U+03A3
TextCased == <<304, 160, 8490, 65, 98, 32, 192, 931>>

\* 'A', 'b', 'p', ' ', '.', '<', '>', line feed
Alphabet == {65, 98, 112, 32, 46, 60, 62, 10}

ShortTexts == UNION {[1 .. n -> Alphabet] : n \in 0 .. MaxLen}

LiteralTexts ==
    {TextHello, TextNegative, TextMinInt, TextHtml, TextEntities,
     TextParagraphs, TextSymbols, TextPre, TextBlank, TextCased}

\* stroke widths in tenths: the defaults 0.5 and 1.5, and 1.0 and 3.0
Overrides ==
    {[minStroke |-> 5, maxStroke |-> 15], [minStroke |-> 10, maxStroke |-> 30]}

\* the content items of a batch
Items ==
    {[text |-> t, strokes |-> o] :
        t \in {TextHello, TextNegative, TextHtml, TextBlank}, o \in Overrides}

\* the items the text analysis is applied to
TextItems ==
    {[text |-> t, strokes |-> o] :
        t \in ShortTexts \cup LiteralTexts,
        o \in {[minStroke |-> 5, maxStroke |-> 15]}}

-----------------------------------------------------------------------------
(* ImageGenerator.generateForItem: one generation request *)

Snapshot(n, m, vp, g, nz) ==
    [req |-> n, metrics |-> m, visualParams |-> vp, rng |-> g, noise |-> nz]

\* the formats of the configuration, in order
Formats == <<"landscape", "square">>

\* the configurations tried: both crop modes, the formats landscape and
\* square, the default output directory and file name pattern
Configs ==
    {[cropMode |-> mode, formats |-> Formats,
      directory |-> "./output", filenamePattern |-> FilenamePattern] :
        mode \in {"direct", "resize"}}

\* the ids of the items, the base names of their files: "post-1", "$&",
\* "{format}" and "a$$b$'"
ItemIds ==
    << <<112, 111, 115, 116, 45, 49>>, <<36, 38>>,
       <<123, 102, 111, 114, 109, 97, 116, 125>>, <<97, 36, 36, 98, 36, 39>> >>

\* the id of the n-th item of the batch
ItemId(n) == ItemIds[((n - 1) % Len(ItemIds)) + 1]

\* generateForItem is called for the next item of the batch
Submit(it) ==
    /\ pc = "idle"
    /\ nreq < MaxRequests
    /\ item' = it
    /\ nreq' = nreq + 1
    /\ fmt' = 0
    /\ renders' = 0
    /\ master' = Nil
    /\ output' = Nil
    /\ files' = <<>>
    /\ errors' = 0
    /\ pc' = "submitted"
    /\ UNCHANGED <<metrics, visualParams, rng, ndraws, noise, sample, flows,
                   seen, canvas, config, logger,
                   imageData, batch, wp, web>>

\* empty content: the item is skipped with a warning and no file
SkipEmpty ==
    /\ pc = "submitted"
    /\ Len(Trim(item.text)) = 0
    /\ pc' = "idle"
    /\ UNCHANGED <<item, metrics, visualParams, rng, ndraws, noise, sample,
                   flows, seen, nreq, fmt, canvas, config, renders,
                   master, output, files, errors, logger,
                   imageData, batch, wp, web>>

\* step 1: new ContentAnalyzer(item.content).analyze()
Analyze ==
    /\ pc = "submitted"
    /\ Len(Trim(item.text)) > 0
    /\ metrics' = analyze(item.text)
    /\ pc' = "analyzed"
    /\ UNCHANGED <<item, visualParams, rng, ndraws, noise, sample, flows,
                   seen, nreq, fmt, canvas, config, renders, master, output,
                   files, errors, logger,
                   imageData, batch, wp, web>>

\* step 2: new SeedGenerator(metrics).generateVisualParams(), then the
\* configured stroke widths are added
MapParams ==
    /\ pc = "analyzed"
    /\ visualParams' =
          [p |-> generateVisualParams(metrics),
           minStroke |-> item.strokes.minStroke,
           maxStroke |-> item.strokes.maxStroke]
    /\ pc' = "mapped"
    /\ UNCHANGED <<item, metrics, rng, ndraws, noise, sample, flows, seen,
                   nreq, fmt, canvas, config, renders, master, output, files,
                   errors, logger,
                   imageData, batch, wp, web>>

\* generateMasterImage: new VisualGeneratorNode(visualParams, size, size)
Construct ==
    /\ pc = "mapped"
    /\ rng' = SeededRandom(Word(visualParams.p.seed))
    /\ noise' = PerlinNoise(Word(visualParams.p.seed))
    /\ ndraws' = 0
    /\ seen' = IF item \in DOMAIN seen /\ seen[item] = Nil
               THEN [seen EXCEPT ![item] =
                        Snapshot(nreq, metrics, visualParams, rng', noise')]
               ELSE seen
    /\ pc' = "constructed"
    /\ UNCHANGED <<item, metrics, visualParams, sample, flows, nreq, fmt,
                   canvas, config, renders, master, output, files, errors,
                   logger,
                   imageData, batch, wp, web>>

\* a selector that forgets the factor 37 of the offset
shapeSelectorPlain(offset, smoothness) == (offset + smoothness) % 100

\* shapeSelector = (offset * 37 + this.params.smoothness * 100) % 100, with
\* smoothness in hundredths; the sum of the doubles selects the same shape
\* as the sum of the integers for every smoothness 0.00 .. 1.00 and every
\* offset of a render
shapeSelector(offset, smoothness) == ((offset * 37) + smoothness) % 100

\* the if-chain of drawOrganicFlows on shapeSelector
ShapeKind(selector) ==
    IF selector < 20 THEN "circle"
    ELSE IF selector < 35 THEN "star"
    ELSE IF selector < 50 THEN "rectangle"
    ELSE IF selector < 70 THEN "polygon"
    ELSE "blob"

\* const steps = 50 of drawFlowingCurve
CurveSteps == 50
\* the number of curves that end a layer
CurvesPerLayer == 3

\* a depth without the constant 0.1
baseDepthFlat(offset) == DMul(DDiv(DInt(offset % 5), DInt(5)), Half)

\* const baseDepth = ((offset % 5) / 5) * 0.5 + 0.1
baseDepth(offset) ==
    DAdd(DMul(DDiv(DInt(offset % 5), DInt(5)), Half), Tenth)

\* this.map(value, 0, 1, 0, stop2) =
\* start2 + (stop2 - start2) * ((value - start1) / (stop1 - start1)); the
\* differences with start1 = 0 and start2 = 0 are exact
map(value, stop2) == DAdd(DZero, DMul(stop2, DDiv(value, DInt(1))))

\* t * 5 for t = i / steps, for the steps 0 .. n; the value of the step i
\* is at the place i + 1
RECURSIVE CurveTimes(_)
CurveTimes(n) ==
    IF n < 0 THEN <<>>
    ELSE Append(CurveTimes(n - 1),
                DMul(DDiv(DInt(n), DInt(CurveSteps)), DInt(5)))

\* the same for all the steps of a curve
CurveTimesAll == CurveTimes(CurveSteps)

\* the sample of step i of the curve: this.noise.get is called with
\* x = t * 5 + offset for t = i / steps, and y = offset * noiseScale
CurvePoint(scale, offset, i) ==
    [x |-> DAdd(CurveTimesAll[i + 1], DInt(offset)),
     y |-> DMul(DInt(offset), scale)]

\* the lattice cell of get(x, y) and the place in it, for a sample on the
\* grid of the noise model
GridPoint(p) ==
    [xi |-> GridIndex(p.x) \div GridN, xf |-> GridIndex(p.x) % GridN,
     yi |-> GridIndex(p.y) \div GridN, yf |-> GridIndex(p.y) % GridN]

\* the steps i of a curve whose sample lies on the grid of the noise model
CurveStepsOnGrid(scale, offset) ==
    IF IsGridValue(CurvePoint(scale, offset, 0).y)
    THEN {i \in 0 .. CurveSteps :
             IsGridValue(CurvePoint(scale, offset, i).x)}
    ELSE {}

\* the value this.noise.get returns at a point of the grid, a number of
\* 1 / (2 * ResDen), as a double
NoiseValue(value) == DDiv(DInt(value), DInt(2 * ResDen))

\* the noise value at the steps on the grid, as a numerator over 2 * ResDen
CurveValues(scale, offset) ==
    [i \in CurveStepsOnGrid(scale, offset) |->
        get(noise.permutation, GridPoint(CurvePoint(scale, offset, i)))]

\* the y of the points of the curve whose noise values are given:
\* this.map(noiseValue, 0, 1, 0, this.height * baseDepth)
CurveYs(values, depth) ==
    [i \in DOMAIN values |->
        map(NoiseValue(values[i]), DMul(DInt(MasterSize), depth))]

\* the record of a curve in the paint log
CurveDrawn(layer, i, depth, values, points) ==
    [op |-> "curve", layer |-> layer, index |-> i,
     offset |-> i + (layer * 10),
     baseDepth |-> depth,
     stop2 |-> DMul(DInt(MasterSize), depth),
     values |-> values,
     ys |-> CurveYs(values, depth),
     points |-> points]

\* a curve whose loop stops before i = steps
drawFlowingCurveOpen(scale, layer, i) ==
    CurveDrawn(layer, i, baseDepth(i + (layer * 10)),
               CHOOSE v \in {CurveValues(scale, i + (layer * 10))} : TRUE,
               Cardinality(0 .. (CurveSteps - 1)))

\* drawFlowingCurve(ctx, noiseScale, offset): one point for each i in
\* 0 .. steps, the first by moveTo and the others by lineTo, then one stroke
drawFlowingCurve(scale, layer, i) ==
    CurveDrawn(layer, i, baseDepth(i + (layer * 10)),
               CHOOSE v \in {CurveValues(scale, i + (layer * 10))} : TRUE,
               Cardinality(0 .. CurveSteps))

\* generate(): a new canvas, the palette lookup and the background, then
\* drawOrganicFlows computes its loop constants; an undefined palette throws
\* before anything is painted
StartFlows ==
    /\ pc = "constructed"
    /\ renders' = renders + 1
    /\ IF PaletteAt(visualParams.p.paletteIndex) = Nil
       THEN pc' = "failed" /\ flows' = flows /\ canvas' = <<>>
       ELSE /\ pc' = "flows"
            /\ flows' = [c |-> FlowConstants(visualParams.p),
                         layer |-> 0, flow |-> 0]
            /\ canvas' = <<[op |-> "background"]>>
    /\ UNCHANGED <<item, metrics, visualParams, rng, ndraws, noise, sample,
                   seen, nreq, fmt, config, master, output, files, errors,
                   logger,
                   imageData, batch, wp, web>>

\* an offset that steps by 10 from layer to layer, as the curves' does
FlowOffsetTen(flow, layer) == flow + (layer * 10)

\* const offset = flow + layer * 100
FlowOffset(flow, layer) == flow + (layer * 100)

\* one flow: x, y and size are drawn, then the shape the selector names is
\* painted
DrawFlow ==
    /\ pc = "flows"
    /\ flows.flow < flows.c.numFlows
    /\ rng' = random(random(random(rng)))
    /\ ndraws' = ndraws + 3
    /\ LET offset == FlowOffset(flows.flow, flows.layer)
           selector == shapeSelector(offset, visualParams.p.smoothness)
       IN  canvas' = Append(canvas,
                            [op |-> "shape", layer |-> flows.layer,
                             flow |-> flows.flow, offset |-> offset,
                             kind |-> ShapeKind(selector)])
    /\ flows' = [flows EXCEPT !.flow = @ + 1]
    /\ UNCHANGED <<pc, item, metrics, visualParams, noise, sample, seen,
                   nreq, fmt, config, renders, master, output, files, errors,
                   logger,
                   imageData, batch, wp, web>>

\* curves that take one draw from the generator of the renderer
DrawCurvesDrawing ==
    /\ pc = "flows"
    /\ flows.flow = flows.c.numFlows
    /\ canvas' = canvas \o [i \in 1 .. CurvesPerLayer |->
                               drawFlowingCurve(flows.c.noiseScale, flows.layer,
                                                i - 1)]
    /\ flows' = [flows EXCEPT !.flow = 0, !.layer = @ + 1]
    /\ pc' = IF flows.layer + 1 < flows.c.numLayers THEN "flows" ELSE "texture"
    /\ rng' = random(rng)
    /\ ndraws' = ndraws + 1
    /\ UNCHANGED <<item, metrics, visualParams, noise, sample,
                   seen, nreq, fmt, config, renders, master, output, files,
                   errors, logger,
                   imageData, batch, wp, web>>

\* the three curves that end a layer
DrawCurves ==
    /\ pc = "flows"
    /\ flows.flow = flows.c.numFlows
    /\ canvas' = canvas \o [i \in 1 .. CurvesPerLayer |->
                               drawFlowingCurve(flows.c.noiseScale, flows.layer,
                                                i - 1)]
    /\ flows' = [flows EXCEPT !.flow = 0, !.layer = @ + 1]
    /\ pc' = IF flows.layer + 1 < flows.c.numLayers THEN "flows" ELSE "texture"
    /\ UNCHANGED <<item, metrics, visualParams, rng, ndraws, noise, sample,
                   seen, nreq, fmt, config, renders, master, output, files,
                   errors, logger,
                   imageData, batch, wp, web>>

\* drawNoiseTexture reads the pixels painted so far and writes them back
\* with the noise added, after which generate() returns the canvas, the
\* master of this format
DrawNoiseTexture ==
    /\ pc = "texture"
    /\ canvas' = Append(canvas, [op |-> "texture"])
    /\ master' = [width |-> MasterSize, height |-> MasterSize,
                  render |-> renders]
    /\ pc' = "rendered"
    /\ UNCHANGED <<item, metrics, visualParams, rng, ndraws, noise, sample,
                   flows, seen, nreq, fmt, config, renders, output, files,
                   errors, logger,
                   imageData, batch, wp, web>>

\* generateFormat: applyCropMode(masterCanvas, format.width, format.height),
\* then the file name and the path are computed and fs.mkdir is called;
\* generateFormat waits for it.  For a format without width and height
\* both are undefined: the canvas made has no size and the drawImage calls,
\* whose arguments are not finite, draw nothing on it
ApplyCropMode ==
    /\ pc = "rendered"
    /\ getFormats(config)[fmt + 1] # Nil
    /\ LET format == getFormats(config)[fmt + 1]
       IN  output' = [format |-> format,
                      canvas |-> IF "width" \in DOMAIN format
                                 THEN applyCropMode(master, format.width,
                                                    format.height,
                                                    config.cropMode)
                                 ELSE createCanvas(Num(0), Num(0)),
                      path |-> [directory |-> config.directory,
                                name |-> getFileName(config, ItemId(nreq),
                                                     FormatName(format))],
                      made |-> FALSE, written |-> FALSE]
    /\ pc' = "cropped"
    /\ UNCHANGED <<item, metrics, visualParams, rng, ndraws, noise, sample,
                   flows, seen, nreq, fmt, canvas, config, renders, master,
                   files, errors, logger,
                   imageData, batch, wp, web>>

\* await fs.mkdir(directory, { recursive: true }) settles: the directory
\* exists, the buffer is made and fs.writeFile is called; or mkdir fails and
\* generateFormat throws
Mkdir(made) ==
    /\ pc = "cropped"
    /\ IF made
       THEN /\ output' = [output EXCEPT !.made = TRUE]
            /\ pc' = "directory"
       ELSE /\ output' = output
            /\ pc' = "failed"
    /\ UNCHANGED <<item, metrics, visualParams, rng, ndraws, noise, sample,
                   flows, seen, nreq, fmt, canvas, config, renders, master,
                   files, errors, logger,
                   imageData, batch, wp, web>>

\* await fs.writeFile(outputPath, buffer) settles: the file is written and
\* generateFormat returns the path; or the write fails and generateFormat
\* throws
WriteFile(written) ==
    /\ pc = "directory"
    /\ IF written
       THEN /\ output' = [output EXCEPT !.written = TRUE]
            /\ pc' = "written"
       ELSE /\ output' = output
            /\ pc' = "failed"
    /\ UNCHANGED <<item, metrics, visualParams, rng, ndraws, noise, sample,
                   flows, seen, nreq, fmt, canvas, config, renders, master,
                   files, errors, logger,
                   imageData, batch, wp, web>>

\* generateForItem goes on after await this.generateFormat(..):
\* generatedFiles.push(filePath)
PushPath ==
    /\ pc = "written"
    /\ files' = Append(files, [directory |-> output.path.directory,
                               name |-> output.path.name,
                               width |-> output.canvas.width,
                               height |-> output.canvas.height])
    /\ pc' = "saved"
    /\ UNCHANGED <<item, metrics, visualParams, rng, ndraws, noise, sample,
                   flows, seen, nreq, fmt, canvas, config, renders, master,
                   output, errors, logger,
                   imageData, batch, wp, web>>

\* the end of one round of the loop over the formats: the path is kept, or
\* the failure of the round is logged; generateFormat is called again for
\* the next format, if there is one
NextFormat ==
    /\ pc \in {"saved", "failed"}
    /\ errors' = IF pc = "failed" THEN errors + 1 ELSE errors
    /\ fmt' = fmt + 1
    /\ pc' = IF fmt + 1 < Len(getFormats(config)) THEN "mapped" ELSE "done"
    /\ UNCHANGED <<item, metrics, visualParams, rng, ndraws, noise, sample,
                   flows, seen, nreq, canvas, config, renders, master, output,
                   files, logger,
                   imageData, batch, wp, web>>

\* generateForItem returns; the next item may be submitted
Finish ==
    /\ pc = "done"
    /\ pc' = "idle"
    /\ UNCHANGED <<item, metrics, visualParams, rng, ndraws, noise, sample,
                   flows, seen, nreq, fmt, canvas, config, renders,
                   master, output, files, errors, logger,
                   imageData, batch, wp, web>>

Init ==
    /\ pc = "idle"
    /\ item = Nil
    /\ metrics = Nil
    /\ visualParams = Nil
    /\ rng = Nil
    /\ ndraws = 0
    /\ noise = Nil
    /\ sample = Nil
    /\ flows = Nil
    /\ seen = [it \in Items |-> Nil]
    /\ nreq = 0
    /\ fmt = 0
    /\ canvas = <<>>
    /\ config \in Configs
    /\ renders = 0
    /\ master = Nil
    /\ output = Nil
    /\ files = <<>>
    /\ errors = 0
    /\ logger = Nil
    /\ imageData = Nil
    /\ batch = Nil
    /\ wp = Nil
    /\ web = Nil

Next ==
    \/ \E it \in Items : Submit(it)
    \/ SkipEmpty
    \/ Analyze
    \/ MapParams
    \/ Construct
    \/ StartFlows
    \/ DrawFlow
    \/ DrawCurves
    \/ DrawNoiseTexture
    \/ ApplyCropMode
    \/ \E made \in BOOLEAN : Mkdir(made)
    \/ \E written \in BOOLEAN : WriteFile(written)
    \/ PushPath
    \/ NextFormat
    \/ Finish

Spec == Init /\ [][Next]_vars

-----------------------------------------------------------------------------
(* A generator in use: any seed, any number of draws *)

\* 0, 1, 42, 2^16, 2^31 - 1, 2^31, 2^32 - 2, 2^32 - 1 and others
RngSeeds ==
    {Word(0), Word(1), Word(42), Word(65536), Word(123456789),
     [hi |-> 32767, lo |-> 65535], [hi |-> 32768, lo |-> 0],
     [hi |-> 65535, lo |-> 65534], [hi |-> 65535, lo |-> 65535],
     [hi |-> 43690, lo |-> 21845]}

\* one call of random() on the generator
Random ==
    /\ pc = "drawing"
    /\ ndraws < MaxDraws
    /\ rng' = random(rng)
    /\ ndraws' = ndraws + 1
    /\ UNCHANGED <<pc, item, metrics, visualParams, noise, sample, flows,
                   seen, nreq, fmt, canvas, config, renders, master, output,
                   files, errors, logger,
                   imageData, batch, wp, web>>

InitRng ==
    /\ pc = "drawing"
    /\ rng \in {SeededRandom(s) : s \in RngSeeds}
    /\ ndraws = 0
    /\ item = Nil
    /\ metrics = Nil
    /\ visualParams = Nil
    /\ noise = Nil
    /\ sample = Nil
    /\ flows = Nil
    /\ seen = [it \in {} |-> Nil]
    /\ nreq = 0
    /\ fmt = 0
    /\ canvas = <<>>
    /\ config \in Configs
    /\ renders = 0
    /\ master = Nil
    /\ output = Nil
    /\ files = <<>>
    /\ errors = 0
    /\ logger = Nil
    /\ imageData = Nil
    /\ batch = Nil
    /\ wp = Nil
    /\ web = Nil

NextRng == Random

SpecRng == InitRng /\ [][NextRng]_vars

-----------------------------------------------------------------------------
(* A noise field in use: any seed, any sample point *)

NoiseSeeds ==
    {Word(n) : n \in 0 .. MaxSeed}
        \cup {Word(42), Word(4101), Word(2147483647),
              [hi |-> 65535, lo |-> 65535]}

\* the lattice cells sampled in each direction: 0 .. MaxCell, 255 and 256
CellAt(k) == IF k <= MaxCell THEN k ELSE 254 + (k - MaxCell)
NumCells == MaxCell + 3
NumPoints == NumCells * NumCells * GridN * GridN

\* the n-th sample point, n in 0 .. NumPoints - 1: the points are visited
\* cell by cell, and inside a cell fraction by fraction
PointAt(n) ==
    [xi |-> CellAt(n \div (NumCells * GridN * GridN)),
     yi |-> CellAt((n \div (GridN * GridN)) % NumCells),
     xf |-> (n \div GridN) % GridN,
     yf |-> n % GridN]

\* one call of noise.get(x, y), at the next sample point
Get ==
    /\ pc = "sampling"
    /\ LET n == IF sample = Nil THEN 0 ELSE sample.n + 1
           pt == PointAt(n)
       IN  /\ n < NumPoints
           /\ sample' = [n |-> n, pt |-> pt,
                         corners |-> Corners(noise.permutation, pt),
                         reads |-> TableReads(noise.permutation, pt),
                         value |-> get(noise.permutation, pt)]
    /\ UNCHANGED <<pc, item, metrics, visualParams, rng, ndraws, noise, flows,
                   seen, nreq, fmt, canvas, config, renders, master, output,
                   files, errors, logger,
                   imageData, batch, wp, web>>

InitNoise ==
    /\ pc = "sampling"
    /\ noise \in {PerlinNoise(s) : s \in NoiseSeeds}
    /\ sample = Nil
    /\ rng = Nil
    /\ ndraws = 0
    /\ item = Nil
    /\ metrics = Nil
    /\ visualParams = Nil
    /\ flows = Nil
    /\ seen = [it \in {} |-> Nil]
    /\ nreq = 0
    /\ fmt = 0
    /\ canvas = <<>>
    /\ config \in Configs
    /\ renders = 0
    /\ master = Nil
    /\ output = Nil
    /\ files = <<>>
    /\ errors = 0
    /\ logger = Nil
    /\ imageData = Nil
    /\ batch = Nil
    /\ wp = Nil
    /\ web = Nil

NextNoise == Get

SpecNoise == InitNoise /\ [][NextNoise]_vars

-----------------------------------------------------------------------------
(* The analysis and the mapping applied to every text *)

InitText ==
    /\ pc = "submitted"
    /\ item \in TextItems
    /\ metrics = Nil
    /\ visualParams = Nil
    /\ rng = Nil
    /\ ndraws = 0
    /\ noise = Nil
    /\ sample = Nil
    /\ flows = Nil
    /\ seen = [it \in {} |-> Nil]
    /\ nreq = 1
    /\ fmt = 0
    /\ canvas = <<>>
    /\ config \in Configs
    /\ renders = 0
    /\ master = Nil
    /\ output = Nil
    /\ files = <<>>
    /\ errors = 0
    /\ logger = Nil
    /\ imageData = Nil
    /\ batch = Nil
    /\ wp = Nil
    /\ web = Nil

NextText == SkipEmpty \/ Analyze \/ MapParams

SpecText == InitText /\ [][NextText]_vars

-----------------------------------------------------------------------------
(* The mapping and the renderer's loop constants applied to every metrics  *)
(* value: new SeedGenerator(metrics) accepts any metrics object            *)

WordCounts == {0, 1, 6, 200, 201, 999, 1000, 1999, 2000, 2001, 2600}

SomeMetrics ==
    {[characters |-> 5 * wc,
      wordCount |-> wc,
      avgWordLength |-> IF wc = 0 THEN 0 ELSE 35,
      readingTime |-> (wc + 199) \div 200,
      paragraphCount |-> n,
      words |-> <<>>,
      cleanContent |-> t] :
        wc \in WordCounts, n \in 0 .. MaxParagraphs,
        t \in {TextHello, TextNegative}}

InitParams ==
    /\ pc = "analyzed"
    /\ metrics \in SomeMetrics
    /\ item = [text |-> metrics.cleanContent,
               strokes |-> [minStroke |-> 5, maxStroke |-> 15]]
    /\ visualParams = Nil
    /\ rng = Nil
    /\ ndraws = 0
    /\ noise = Nil
    /\ sample = Nil
    /\ flows = Nil
    /\ seen = [it \in {} |-> Nil]
    /\ nreq = 1
    /\ fmt = 0
    /\ canvas = <<>>
    /\ config \in Configs
    /\ renders = 0
    /\ master = Nil
    /\ output = Nil
    /\ files = <<>>
    /\ errors = 0
    /\ logger = Nil
    /\ imageData = Nil
    /\ batch = Nil
    /\ wp = Nil
    /\ web = Nil

NextParams == MapParams \/ Construct \/ StartFlows

SpecParams == InitParams /\ [][NextParams]_vars

-----------------------------------------------------------------------------
(* One render for every kind of parameters: few and many flows and layers, *)
(* several smoothness values, the same smoothness under different seeds    *)

RenderMetrics ==
    {[characters |-> 5 * wc,
      wordCount |-> wc,
      avgWordLength |-> avg,
      readingTime |-> (wc + 199) \div 200,
      paragraphCount |-> 5,
      words |-> <<>>,
      cleanContent |-> TextHello] :
        wc \in {1, 6, 450, 1000, 2600}, avg \in {14, 20, 35, 70, 114}}

InitRender ==
    /\ pc = "analyzed"
    /\ metrics \in RenderMetrics
    /\ item = [text |-> metrics.cleanContent,
               strokes |-> [minStroke |-> 5, maxStroke |-> 15]]
    /\ visualParams = Nil
    /\ rng = Nil
    /\ ndraws = 0
    /\ noise = Nil
    /\ sample = Nil
    /\ flows = Nil
    /\ seen = [it \in {} |-> Nil]
    /\ nreq = 1
    /\ fmt = 0
    /\ canvas = <<>>
    /\ config \in Configs
    /\ renders = 0
    /\ master = Nil
    /\ output = Nil
    /\ files = <<>>
    /\ errors = 0
    /\ logger = Nil
    /\ imageData = Nil
    /\ batch = Nil
    /\ wp = Nil
    /\ web = Nil

NextRender ==
    \/ MapParams
    \/ Construct
    \/ StartFlows
    \/ DrawFlow
    \/ DrawCurves
    \/ DrawNoiseTexture

SpecRender == InitRender /\ [][NextRender]_vars

-----------------------------------------------------------------------------
(* One item through generateForItem: each format of the configuration is  *)
(* cropped from a master of its own and saved                              *)

InitCrop ==
    /\ pc = "submitted"
    /\ config \in Configs
    /\ master = Nil
    /\ renders = 0
    /\ output = Nil
    /\ files = <<>>
    /\ errors = 0
    /\ logger = Nil
    /\ imageData = Nil
    /\ batch = Nil
    /\ wp = Nil
    /\ web = Nil
    /\ item \in {it \in Items : it.text = TextHello}
    /\ metrics = Nil
    /\ visualParams = Nil
    /\ rng = Nil
    /\ ndraws = 0
    /\ noise = Nil
    /\ sample = Nil
    /\ flows = Nil
    /\ seen = [it \in Items |-> Nil]
    /\ nreq = 1
    /\ fmt = 0
    /\ canvas = <<>>

NextCrop ==
    \/ Analyze
    \/ MapParams
    \/ Construct
    \/ StartFlows
    \/ DrawFlow
    \/ DrawCurves
    \/ DrawNoiseTexture
    \/ ApplyCropMode
    \/ \E made \in BOOLEAN : Mkdir(made)
    \/ \E written \in BOOLEAN : WriteFile(written)
    \/ PushPath
    \/ NextFormat

SpecCrop == InitCrop /\ [][NextCrop]_vars

-----------------------------------------------------------------------------
(* The collaborators' HTML stripping.  The document object model of a flat  *)
(* HTML fragment is the sequence of its nodes: an element [tag, text] with  *)
(* the text it contains, or a text node with tag "#text".                   *)

TagOpenP == <<Ch.lt, Ch.p, Ch.gt>>
TagCloseP == <<Ch.lt, Ch.slash, Ch.p, Ch.gt>>

\* the names, in the lower case of the markup, of the elements the parser
\* is given here; the field is the tagName of the element
ElementNames ==
    [P |-> <<112>>,
     DIV |-> <<100, 105, 118>>,
     H1 |-> <<104, 49>>,
     H2 |-> <<104, 50>>,
     H3 |-> <<104, 51>>,
     H4 |-> <<104, 52>>,
     H5 |-> <<104, 53>>,
     H6 |-> <<104, 54>>,
     LI |-> <<108, 105>>,
     SPAN |-> <<115, 112, 97, 110>>]

\* "br": an element without content or end tag
NameBr == <<98, 114>>

\* the nodes the HTML parser builds for a flat fragment: text, <br> and
\* elements <name>text</name> that hold text only
\* (temp.innerHTML = html; new JSDOM(html).window.document.body)
RECURSIVE ParseNodes(_)
ParseNodes(html) ==
    IF html = <<>> THEN <<>>
    ELSE IF Head(html) = Ch.lt
    THEN LET g == IndexFrom(html, Ch.gt, 2)
             name == SubSeq(html, 2, g - 1)
         IN  IF name = NameBr
             THEN <<[tag |-> "BR", text |-> <<>>]>>
                      \o ParseNodes(Drop(html, g))
             ELSE LET k == IndexFrom(html, Ch.lt, g + 1)
                      tag == CHOOSE t \in DOMAIN ElementNames :
                                 ElementNames[t] = name
                  IN  <<[tag |-> tag, text |-> SubSeq(html, g + 1, k - 1)]>>
                          \o ParseNodes(Drop(html, k + Len(name) + 2))
    ELSE LET k == IndexFrom(html, Ch.lt, 1)
             n == IF k = 0 THEN Len(html) ELSE k - 1
         IN  <<[tag |-> "#text", text |-> SubSeq(html, 1, n)]>>
                 \o ParseNodes(Drop(html, n))

\* node.textContent of the container of the nodes
RECURSIVE textContent(_)
textContent(nodes) ==
    IF nodes = <<>> THEN <<>>
    ELSE Head(nodes).text \o textContent(Tail(nodes))

\* the tagName of the elements 'p, div, br, h1, h2, h3, h4, h5, h6, li, tr'
\* selects
BlockTags == {"P", "DIV", "BR", "H1", "H2", "H3", "H4", "H5", "H6", "LI", "TR"}

\* the forEach over the block elements: a BR is replaced by a line break,
\* another block element with text by the text node of its text followed by
\* two line breaks
ReplaceBlocks(nodes) ==
    [i \in 1 .. Len(nodes) |->
        IF nodes[i].tag \notin BlockTags THEN nodes[i]
        ELSE IF nodes[i].tag = "BR"
        THEN [tag |-> "#text", text |-> <<Ch.lf>>]
        ELSE IF Len(Trim(nodes[i].text)) > 0
        THEN [tag |-> "#text", text |-> nodes[i].text \o <<Ch.lf, Ch.lf>>]
        ELSE nodes[i]]

\* the text after its leading run of the character c or d
RECURSIVE SkipRun(_, _, _)
SkipRun(s, c, d) ==
    IF s # <<>> /\ Head(s) \in {c, d} THEN SkipRun(Tail(s), c, d) ELSE s

\* s.replace(/[ \t]+/g, ' ')
RECURSIVE CollapseBlanks(_)
CollapseBlanks(s) ==
    IF s = <<>> THEN <<>>
    ELSE IF Head(s) \in {Ch.sp, Ch.tab}
         THEN <<Ch.sp>> \o CollapseBlanks(SkipRun(s, Ch.sp, Ch.tab))
         ELSE <<Head(s)>> \o CollapseBlanks(Tail(s))

\* s.replace(/\n\n\n+/g, '\n\n')
RECURSIVE CollapseBlankLines(_)
CollapseBlankLines(s) ==
    IF s = <<>> THEN <<>>
    ELSE IF StartsWith(s, <<Ch.lf, Ch.lf, Ch.lf>>)
         THEN <<Ch.lf, Ch.lf>> \o CollapseBlankLines(SkipRun(s, Ch.lf, Ch.lf))
         ELSE <<Head(s)>> \o CollapseBlankLines(Tail(s))

\* s.replace(/\n+/g, '\n')
RECURSIVE CollapseBreaks(_)
CollapseBreaks(s) ==
    IF s = <<>> THEN <<>>
    ELSE IF Head(s) = Ch.lf
         THEN <<Ch.lf>> \o CollapseBreaks(SkipRun(s, Ch.lf, Ch.lf))
         ELSE <<Head(s)>> \o CollapseBreaks(Tail(s))

\* App.stripHtml(html) of the web application
stripHtmlWeb(html) ==
    LET text == textContent(ReplaceBlocks(ParseNodes(html)))
        t1 == CollapseBlanks(text)
        t2 == CollapseBlankLines(t1)
        t3 == ReplaceAll(t2, <<Ch.lf, Ch.sp>>, <<Ch.lf>>)
        t4 == ReplaceAll(t3, <<Ch.sp, Ch.lf>>, <<Ch.lf>>)
    IN  Trim(t4)

\* FileProvider.stripHtml(html) of the command line
stripHtml(html) ==
    LET text == textContent(ParseNodes(html))
    IN  Trim(CollapseBreaks(CollapseSpace(text)))

\* the texts of the <p> blocks tried: "a" and "b c"
BlockTexts == {<<97>>, <<98, Ch.sp, 99>>}

\* what stands between two blocks of a document: nothing, a line break,
\* "<br>", "<h2>t</h2>" or "<span>t</span>"
BlockSeparators ==
    {<<>>, <<Ch.lf>>, <<Ch.lt>> \o NameBr \o <<Ch.gt>>,
     <<60, 104, 50, 62, 116, 60, 47, 104, 50, 62>>,
     <<60, 115, 112, 97, 110, 62, 116, 60, 47, 115, 112, 97, 110, 62>>}

\* the document of the blocks with the texts ts, sep between two blocks
RECURSIVE HtmlOf(_, _)
HtmlOf(ts, sep) ==
    IF ts = <<>> THEN <<>>
    ELSE TagOpenP \o Head(ts) \o TagCloseP
            \o (IF Len(ts) > 1 THEN sep ELSE <<>>) \o HtmlOf(Tail(ts), sep)

\* the HTML documents of 1..MaxBlocks non-empty <p> blocks; onlyP says that
\* no other element with text stands between them
HtmlItems ==
    {[html |-> HtmlOf(ts, sep), blocks |-> Len(ts),
      onlyP |-> (Len(sep) < 5),
      strokes |-> [minStroke |-> 5, maxStroke |-> 15]] :
        ts \in UNION {[1 .. k -> BlockTexts] : k \in 1 .. MaxBlocks},
        sep \in BlockSeparators}

\* the web application loads a post: content = stripHtml(content.rendered)
LoadWeb ==
    /\ pc = "loaded"
    /\ item' = [text |-> stripHtmlWeb(item.html), strokes |-> item.strokes,
                html |-> item.html, blocks |-> item.blocks,
                onlyP |-> item.onlyP, by |-> "web"]
    /\ pc' = "submitted"
    /\ UNCHANGED <<metrics, visualParams, rng, ndraws, noise, sample, flows,
                   seen, nreq, fmt, canvas, config, renders, master, output,
                   files, errors, logger,
                   imageData, batch, wp, web>>

\* FileProvider.readFile of an .html file: content = stripHtml(..).trim()
LoadFile ==
    /\ pc = "loaded"
    /\ item' = [text |-> Trim(stripHtml(item.html)), strokes |-> item.strokes,
                html |-> item.html, blocks |-> item.blocks,
                onlyP |-> item.onlyP, by |-> "cli"]
    /\ pc' = "submitted"
    /\ UNCHANGED <<metrics, visualParams, rng, ndraws, noise, sample, flows,
                   seen, nreq, fmt, canvas, config, renders, master, output,
                   files, errors, logger,
                   imageData, batch, wp, web>>

InitStrip ==
    /\ pc = "loaded"
    /\ item \in HtmlItems
    /\ metrics = Nil
    /\ visualParams = Nil
    /\ rng = Nil
    /\ ndraws = 0
    /\ noise = Nil
    /\ sample = Nil
    /\ flows = Nil
    /\ seen = [it \in {} |-> Nil]
    /\ nreq = 1
    /\ fmt = 0
    /\ canvas = <<>>
    /\ config \in Configs
    /\ renders = 0
    /\ master = Nil
    /\ output = Nil
    /\ files = <<>>
    /\ errors = 0
    /\ logger = Nil
    /\ imageData = Nil
    /\ batch = Nil
    /\ wp = Nil
    /\ web = Nil

NextStrip == LoadWeb \/ LoadFile \/ Analyze

SpecStrip == InitStrip /\ [][NextStrip]_vars

-----------------------------------------------------------------------------
(* drawNoiseTexture.  The pixel buffer is a Uint8ClampedArray of            *)
(* width * height * 4 bytes; the model keeps the bytes of the pixels whose  *)
(* noise sample i * 0.01 lies on the grid of the noise model, and of their  *)
(* right and lower neighbours.  A number with a fraction is [int, rem]:     *)
(* int + rem / ResDen with 0 <= rem < ResDen.                               *)

\* the pixel coordinate i is sampled at a grid point: i * 0.01 = k / GridN
OnGrid(i) == (i * GridN) % 100 = 0

\* the coordinates below n the model keeps: the even ones on the grid and
\* the odd ones after them
KeptCoords(n) ==
    {x \in 0 .. (n - 1) : OnGrid(x - (x % 2))}

\* the sample point (i * 0.01, j * 0.01)
TexturePoint(i, j) ==
    [xi |-> i \div 100, xf |-> ((i % 100) * GridN) \div 100,
     yi |-> j \div 100, yf |-> ((j % 100) * GridN) \div 100]

\* noise.get(i * 0.01, j * 0.01) * 10 - 5
NoiseOffset(perm, i, j) ==
    LET d == 5 * (get(perm, TexturePoint(i, j)) - ResDen)
    IN  [int |-> d \div ResDen, rem |-> d % ResDen]

\* constrain(value, min, max): Math.min(Math.max(value, min), max)
constrain(value, min, max) ==
    IF value.int < min THEN [int |-> min, rem |-> 0]
    ELSE IF value.int >= max THEN [int |-> max, rem |-> 0]
    ELSE value

\* the store into a Uint8ClampedArray: rounded to the nearest integer, a
\* half to the even one, and clamped to 0 .. 255
ToUint8Clamped(value) ==
    LET r == IF 2 * value.rem < ResDen THEN value.int
             ELSE IF 2 * value.rem > ResDen THEN value.int + 1
             ELSE value.int + (value.int % 2)
    IN  IF r < 0 THEN 0 ELSE IF r > 255 THEN 255 ELSE r

\* the values i and j take in the loops: 0, 2, 4, .. below n
LoopCoords(n) == {i \in 0 .. (n - 1) : i % 2 = 0}

\* const index = (j * this.width + i) * 4
TextureIndex(width, i, j) == ((j * width) + i) * 4

\* a texture that writes the alpha byte as well
TextureChannelsAll == 0 .. 3

\* the bytes written at index: pixels[index], [index + 1], [index + 2]
TextureChannels == 0 .. 2

\* ctx.getImageData(0, 0, width, height) of a canvas filled with one colour
getImageData(width, height, colour) ==
    LET data == [k \in {TextureIndex(width, x, y) + c :
                           x \in KeptCoords(width), y \in KeptCoords(height),
                           c \in 0 .. 3} |-> colour[(k % 4) + 1]]
    IN  [width |-> width, height |-> height, length |-> width * height * 4,
         data |-> data, before |-> data]

\* the loops of drawNoiseTexture on the bytes the model keeps
drawNoiseTexture(img, perm) ==
    LET writes ==
            {w \in {[index |-> TextureIndex(img.width, i, j),
                     offset |-> NoiseOffset(perm, i, j)] :
                        i \in LoopCoords(img.width) \cap KeptCoords(img.width),
                        j \in LoopCoords(img.height)
                                 \cap KeptCoords(img.height)} :
                w.index < img.length}
        Written(k) == {w \in writes : k - w.index \in TextureChannels}
    IN  [img EXCEPT !.data =
            [k \in DOMAIN img.data |->
                IF Written(k) = {} THEN img.data[k]
                ELSE LET w == CHOOSE w \in Written(k) : TRUE
                         sum == [int |-> img.data[k] + w.offset.int,
                                 rem |-> w.offset.rem]
                     IN  ToUint8Clamped(constrain(sum, 0, 255))]]

\* every index the loops compute, for a canvas of the given size
TextureIndexes(width, height) ==
    {TextureIndex(width, i, j) :
        i \in LoopCoords(width), j \in LoopCoords(height)}

\* the canvas sizes, the fill colours (r, g, b, a) and the seeds tried
TextureSizes == {<<51, 51>>, <<52, 101>>, <<101, 52>>, <<102, 102>>,
                 <<1200, 2>>}
TextureColours == {<<0, 0, 0, 255>>, <<2, 128, 254, 255>>,
                   <<255, 255, 255, 128>>, <<5, 250, 131, 0>>}
TextureSeeds == {Word(1), Word(42), Word(4101)}

\* generate(): drawNoiseTexture(ctx) on the canvas painted so far
NoiseTexture ==
    /\ pc = "texture"
    /\ imageData' = drawNoiseTexture(imageData, noise.permutation)
    /\ pc' = "rendered"
    /\ UNCHANGED <<item, metrics, visualParams, rng, ndraws, noise, sample,
                   flows, seen, nreq, fmt, canvas, config, renders, master,
                   output, files, errors, logger, batch, wp, web>>

InitTexture ==
    /\ pc = "texture"
    /\ noise \in {PerlinNoise(sd) : sd \in TextureSeeds}
    /\ imageData \in {getImageData(sz[1], sz[2], colour) :
                         sz \in TextureSizes, colour \in TextureColours}
    /\ sample = Nil
    /\ rng = Nil
    /\ ndraws = 0
    /\ item = Nil
    /\ metrics = Nil
    /\ visualParams = Nil
    /\ flows = Nil
    /\ seen = [it \in {} |-> Nil]
    /\ nreq = 0
    /\ fmt = 0
    /\ canvas = <<>>
    /\ config \in Configs
    /\ renders = 0
    /\ master = Nil
    /\ output = Nil
    /\ files = <<>>
    /\ errors = 0
    /\ logger = Nil
    /\ batch = Nil
    /\ wp = Nil
    /\ web = Nil

NextTexture == NoiseTexture

SpecTexture == InitTexture /\ [][NextTexture]_vars

-----------------------------------------------------------------------------
(* The generate command of the command line: the items are obtained, the   *)
(* loop goes over them, the summary is logged and the process exits.  An    *)
(* item's content is a string (text), a number (number) or null.  A call of *)
(* the Logger that writes a line (fs.appendFileSync) may throw.             *)

BatchItems ==
    {[text |-> TextHello, type |-> "string", number |-> 0,
      strokes |-> [minStroke |-> 5, maxStroke |-> 15]],
     [text |-> TextBlank, type |-> "string", number |-> 0,
      strokes |-> [minStroke |-> 5, maxStroke |-> 15]],
     [text |-> <<>>, type |-> "string", number |-> 0,
      strokes |-> [minStroke |-> 5, maxStroke |-> 15]],
     [text |-> <<>>, type |-> "number", number |-> 0,
      strokes |-> [minStroke |-> 5, maxStroke |-> 15]],
     [text |-> <<>>, type |-> "number", number |-> 42,
      strokes |-> [minStroke |-> 5, maxStroke |-> 15]],
     [text |-> <<>>, type |-> "null", number |-> 0,
      strokes |-> [minStroke |-> 5, maxStroke |-> 15]]}

\* the configurations of the command line: those of Configs, one whose
\* first format name, "portrait", formatMap does not have, and one whose
\* first format name, "constructor", it inherits from Object.prototype
BatchConfigs ==
    Configs \cup
        {[cropMode |-> "direct", formats |-> names,
          directory |-> "./output", filenamePattern |-> FilenamePattern] :
            names \in {<<"portrait", "square">>, <<"constructor", "square">>}}

\* the options of the command: --id (one item), --all (a list of any
\* length) or neither
Selections ==
    {[option |-> "id", count |-> 1], [option |-> "none", count |-> 0]}
        \cup {[option |-> "all", count |-> n] : n \in 0 .. MaxItems}

\* !item.content: null, the number 0 and the empty string are falsy
NoContent(it) ==
    \/ it.type = "null"
    \/ it.type = "number" /\ it.number = 0
    \/ it.type = "string" /\ it.text = <<>>

\* if (!item.content || item.content.trim().length === 0), for a content
\* that has a trim method
EmptyContent(it) ==
    NoContent(it) \/ (it.type = "string" /\ Len(Trim(it.text)) = 0)

\* an exit code that ignores the failures
ExitCodeZero(failed) == 0

\* process.exit(failed > 0 ? 1 : 0)
ExitCode(failed) == IF failed > 0 THEN 1 ELSE 0

\* what generateForItem settled with: whether it threw, the number of paths
\* it returned, the number of formats generateFormat was called for and the
\* number of those for which it threw
Settled(threw, attempted) ==
    [threw |-> threw,
     files |-> IF threw THEN 0 ELSE Len(files),
     attempted |-> attempted,
     failedFormats |-> attempted - Len(files)]

\* the action of the command up to the loop: the configuration, the logger
\* and the provider are made and the items are asked for.  Anything thrown
\* here is caught by the catch of the action, which exits with 1; without
\* --id and --all an error is logged and the process exits with 1
GetItems(selection, provided) ==
    /\ pc = "start"
    /\ IF ~ provided
       THEN /\ batch' = [batch EXCEPT !.exit = [code |-> 1], !.fatal = TRUE]
            /\ pc' = "exited"
       ELSE IF selection.option = "none"
       THEN /\ batch' = [batch EXCEPT !.exit = [code |-> 1]]
            /\ pc' = "exited"
       ELSE /\ batch' = [batch EXCEPT !.total = selection.count]
            /\ pc' = "idle"
    /\ UNCHANGED <<item, metrics, visualParams, rng, ndraws, noise, sample,
                   flows, seen, nreq, fmt, canvas, config, renders, master,
                   output, files, errors, logger, imageData, wp, web>>

\* for (const item of items): imageGen.generateForItem(item) is called for
\* the next item of the list
CallGenerateForItem(it) ==
    /\ pc = "idle"
    /\ batch.exit = Nil
    /\ nreq < batch.total
    /\ item' = it
    /\ nreq' = nreq + 1
    /\ fmt' = 0
    /\ renders' = 0
    /\ master' = Nil
    /\ output' = Nil
    /\ files' = <<>>
    /\ errors' = 0
    /\ pc' = "submitted"
    /\ UNCHANGED <<metrics, visualParams, rng, ndraws, noise, sample, flows,
                   seen, canvas, config, logger, imageData, batch, wp, web>>

\* generateForItem returns [] for empty content: its promise is fulfilled
ReturnSkipped ==
    /\ pc = "submitted"
    /\ EmptyContent(item)
    /\ batch' = [batch EXCEPT !.settled = Settled(FALSE, 0)]
    /\ pc' = "settled"
    /\ UNCHANGED <<item, metrics, visualParams, rng, ndraws, noise, sample,
                   flows, seen, nreq, fmt, canvas, config, renders, master,
                   output, files, errors, logger, imageData, wp, web>>

\* generateForItem throws, as item.content.trim is not a function for a
\* number that is not 0: its catch logs the error and throws it again, its
\* promise is rejected
Throw ==
    /\ pc = "submitted"
    /\ ~ NoContent(item)
    /\ item.type # "string"
    /\ errors' = errors + 1
    /\ batch' = [batch EXCEPT !.settled = Settled(TRUE, 0)]
    /\ pc' = "settled"
    /\ UNCHANGED <<item, metrics, visualParams, rng, ndraws, noise, sample,
                   flows, seen, nreq, fmt, canvas, config, renders, master,
                   output, files, logger, imageData, wp, web>>

\* generateFormat is called with the undefined format of a name formatMap
\* does not have: the master is rendered, then format.width throws; the
\* catch of the loop over the formats throws in its turn, on format.name,
\* before it has logged anything; the catch of generateForItem logs the
\* error (logged), or its logger.error throws and nothing is logged; either
\* way the promise is rejected
ThrowFormat(logged) ==
    /\ pc = "rendered"
    /\ getFormats(config)[fmt + 1] = Nil
    /\ errors' = IF logged THEN errors + 1 ELSE errors
    /\ batch' = [batch EXCEPT !.settled = Settled(TRUE, fmt + 1)]
    /\ pc' = "settled"
    /\ UNCHANGED <<item, metrics, visualParams, rng, ndraws, noise, sample,
                   flows, seen, nreq, fmt, canvas, config, renders, master,
                   output, files, logger, imageData, wp, web>>

\* a call of the logger throws in generateForItem and the promise is
\* rejected: logger.info at the start or logger.warn for an empty content
\* (pc = "submitted"), logger.error in the catch of the loop over the
\* formats (pc = "failed"), or logger.info after a format is saved and then
\* logger.error in that catch (pc = "saved").  logger.debug writes nothing.
\* The catch of generateForItem logs the error (logged) or throws as well
LogThrows(logged) ==
    /\ pc \in {"submitted", "saved", "failed"}
    /\ errors' = IF logged THEN errors + 1 ELSE errors
    /\ batch' = [batch EXCEPT
                    !.settled = Settled(TRUE,
                                        IF pc = "submitted" THEN 0
                                        ELSE fmt + 1)]
    /\ pc' = "settled"
    /\ UNCHANGED <<item, metrics, visualParams, rng, ndraws, noise, sample,
                   flows, seen, nreq, fmt, canvas, config, renders, master,
                   output, files, logger, imageData, wp, web>>

\* logger.info throws after the path of a format was pushed: the catch of
\* the loop over the formats logs a failure of the format, whose path stays
\* in the list, and the loop goes on
LogInfoThrows ==
    /\ pc = "saved"
    /\ errors' = errors + 1
    /\ fmt' = fmt + 1
    /\ pc' = IF fmt + 1 < Len(getFormats(config)) THEN "mapped" ELSE "done"
    /\ UNCHANGED <<item, metrics, visualParams, rng, ndraws, noise, sample,
                   flows, seen, nreq, canvas, config, renders, master, output,
                   files, logger, imageData, batch, wp, web>>

\* generateForItem returns generatedFiles: its promise is fulfilled
ReturnFiles ==
    /\ pc = "done"
    /\ batch' = [batch EXCEPT !.settled = Settled(FALSE, fmt)]
    /\ pc' = "settled"
    /\ UNCHANGED <<item, metrics, visualParams, rng, ndraws, noise, sample,
                   flows, seen, nreq, fmt, canvas, config, renders, master,
                   output, files, errors, logger, imageData, wp, web>>

\* the loop goes on after await imageGen.generateForItem(item): the item and
\* its files are counted
CountItem ==
    /\ pc = "settled"
    /\ ~ batch.settled.threw
    /\ batch' = [batch EXCEPT
                    !.successful = @ + 1,
                    !.imagesGenerated = @ + batch.settled.files,
                    !.settled = Nil,
                    !.results = Append(@, batch.settled)]
    /\ pc' = "idle"
    /\ UNCHANGED <<item, metrics, visualParams, rng, ndraws, noise, sample,
                   flows, seen, nreq, fmt, canvas, config, renders, master,
                   output, files, errors, logger, imageData, wp, web>>

\* the catch of the loop: the item is counted as failed and the error is
\* logged a second time; when this logger.error throws, the catch of the
\* action ends the process with exit code 1 and the items after this one
\* are not gone through
CountFailure(logged) ==
    /\ pc = "settled"
    /\ batch.settled.threw
    /\ errors' = IF logged THEN errors + 1 ELSE errors
    /\ batch' = [batch EXCEPT
                    !.failed = @ + 1,
                    !.settled = Nil,
                    !.results = Append(@, batch.settled),
                    !.exit = IF logged THEN @ ELSE [code |-> 1],
                    !.fatal = ~ logged]
    /\ pc' = IF logged THEN "idle" ELSE "exited"
    /\ UNCHANGED <<item, metrics, visualParams, rng, ndraws, noise, sample,
                   flows, seen, nreq, fmt, canvas, config, renders, master,
                   output, files, logger, imageData, wp, web>>

\* the list is exhausted: the summary is logged and the process exits with
\* failed > 0 ? 1 : 0; when logger.summary throws, the catch of the action
\* ends the process with exit code 1
Exit(logged) ==
    /\ pc = "idle"
    /\ batch.exit = Nil
    /\ nreq = batch.total
    /\ batch' = [batch EXCEPT
                    !.exit = IF logged THEN [code |-> ExitCode(batch.failed)]
                             ELSE [code |-> 1],
                    !.fatal = ~ logged]
    /\ pc' = "exited"
    /\ UNCHANGED <<item, metrics, visualParams, rng, ndraws, noise, sample,
                   flows, seen, nreq, fmt, canvas, config, renders, master,
                   output, files, errors, logger, imageData, wp, web>>

InitBatch ==
    /\ pc = "start"
    /\ batch = [successful |-> 0, failed |-> 0, imagesGenerated |-> 0,
                settled |-> Nil, results |-> <<>>, exit |-> Nil,
                total |-> -1, fatal |-> FALSE]
    /\ item = Nil
    /\ metrics = Nil
    /\ visualParams = Nil
    /\ rng = Nil
    /\ ndraws = 0
    /\ noise = Nil
    /\ sample = Nil
    /\ flows = Nil
    /\ seen = [it \in {} |-> Nil]
    /\ nreq = 0
    /\ fmt = 0
    /\ canvas = <<>>
    /\ config \in BatchConfigs
    /\ renders = 0
    /\ master = Nil
    /\ output = Nil
    /\ files = <<>>
    /\ errors = 0
    /\ logger = Nil
    /\ imageData = Nil
    /\ wp = Nil
    /\ web = Nil

NextBatch ==
    \/ \E selection \in Selections, provided \in BOOLEAN :
          GetItems(selection, provided)
    \/ \E it \in BatchItems : CallGenerateForItem(it)
    \/ ReturnSkipped
    \/ Throw
    \/ \E logged \in BOOLEAN : LogThrows(logged)
    \/ Analyze
    \/ MapParams
    \/ Construct
    \/ StartFlows
    \/ DrawFlow
    \/ DrawCurves
    \/ DrawNoiseTexture
    \/ ApplyCropMode
    \/ \E logged \in BOOLEAN : ThrowFormat(logged)
    \/ \E made \in BOOLEAN : Mkdir(made)
    \/ \E written \in BOOLEAN : WriteFile(written)
    \/ PushPath
    \/ NextFormat
    \/ LogInfoThrows
    \/ ReturnFiles
    \/ CountItem
    \/ \E logged \in BOOLEAN : CountFailure(logged)
    \/ \E logged \in BOOLEAN : Exit(logged)

SpecBatch == InitBatch /\ [][NextBatch]_vars

-----------------------------------------------------------------------------
(* WordPressProvider.fetchAllPosts.  A site has pages 1 .. pages of perPage *)
(* posts each; it tells the end of the list by the header X-WP-TotalPages,  *)
(* by an empty page or by HTTP 400 after the last page.  A header that is   *)
(* absent is the empty set, cachedPosts = null is the empty set.            *)

Sites ==
    {[pages |-> n, perPage |-> k, end |-> e] :
        n \in 1 .. MaxPages, k \in 1 .. 2,
        e \in {"header", "empty", "400"}}

\* the posts of a page of the site
PagePosts(site, page) ==
    IF page <= site.pages
    THEN [i \in 1 .. site.perPage |-> [page |-> page, n |-> i]]
    ELSE <<>>

\* the answer of the site to the request for a page
Respond(site, page) ==
    IF page > site.pages /\ site.end = "400"
    THEN [rejected |-> FALSE, ok |-> FALSE, status |-> 400, posts |-> <<>>,
          totalPages |-> {}]
    ELSE [rejected |-> FALSE, ok |-> TRUE, status |-> 200,
          posts |-> PagePosts(site, page),
          totalPages |-> IF site.end = "header" THEN {site.pages} ELSE {}]

\* an answer that is not OK for another reason
ServerError ==
    [rejected |-> FALSE, ok |-> FALSE, status |-> 500, posts |-> <<>>,
     totalPages |-> {}]

\* HTTP 400 for a reason other than a page behind the last
BadRequest ==
    [rejected |-> FALSE, ok |-> FALSE, status |-> 400, posts |-> <<>>,
     totalPages |-> {}]

\* fetch() rejects: the site cannot be reached
NetworkError ==
    [rejected |-> TRUE, ok |-> FALSE, status |-> 0, posts |-> <<>>,
     totalPages |-> {}]

\* totalPages && page > parseInt(totalPages)
PastLast(page, totalPages) ==
    totalPages # {} /\ \A t \in totalPages : page > t

\* after the loop: this.cachedPosts = posts; return posts
ReturnPosts(w) ==
    [w EXCEPT !.hasMore = FALSE, !.cachedPosts = {w.posts},
              !.returned = {w.posts}]

\* throw new Error(`Failed to fetch posts from WordPress: ${error.message}`)
FetchError(message) ==
    {[prefix |-> "Failed to fetch posts from WordPress: ",
      message |-> message]}

\* `HTTP ${response.status}: ${response.statusText}`
HttpMessage(response) ==
    [http |-> response.status]

\* fetchAllPosts() is called: the cached list is returned if there is one,
\* otherwise the loop starts and the function waits for fetch(url) of page 1
FetchAllPosts ==
    /\ pc \in {"ready", "returned", "failed"}
    /\ wp.calls < MaxRequests
    /\ IF wp.cachedPosts # {}
       THEN /\ wp' = [wp EXCEPT !.calls = @ + 1, !.requests = <<>>,
                                !.returned = wp.cachedPosts, !.error = {}]
            /\ pc' = "returned"
       ELSE /\ wp' = [wp EXCEPT !.calls = @ + 1, !.requests = <<1>>,
                                !.returned = {}, !.posts = <<>>,
                                !.page = 1, !.hasMore = TRUE,
                                !.response = {}, !.error = {}]
            /\ pc' = "fetching"
    /\ UNCHANGED <<item, metrics, visualParams, rng, ndraws, noise, sample,
                   flows, seen, nreq, fmt, canvas, config, renders, master,
                   output, files, errors, logger, imageData, batch, web>>

\* await fetch(url) settles: a rejection and a response that is not OK
\* throw, except HTTP 400 after page 1, which ends the loop; an OK response
\* waits for response.json()
Fetched(response) ==
    /\ pc = "fetching"
    /\ IF response.rejected
       THEN /\ wp' = [wp EXCEPT !.error = FetchError([network |-> TRUE])]
            /\ pc' = "failed"
       ELSE IF ~ response.ok
       THEN IF response.status = 400 /\ wp.page > 1
            THEN wp' = ReturnPosts(wp) /\ pc' = "returned"
            ELSE /\ wp' = [wp EXCEPT
                              !.error = FetchError(HttpMessage(response))]
                 /\ pc' = "failed"
       ELSE /\ wp' = [wp EXCEPT !.response = {response}]
            /\ pc' = "parsing"
    /\ UNCHANGED <<item, metrics, visualParams, rng, ndraws, noise, sample,
                   flows, seen, nreq, fmt, canvas, config, renders, master,
                   output, files, errors, logger, imageData, batch, web>>

\* await response.json() settles: an empty page ends the loop, any other
\* page is appended and the header is looked at; when there is more, the
\* next page is requested
FetchPage(parsed) ==
    /\ pc = "parsing"
    /\ \E response \in wp.response :
          IF ~ parsed
          THEN /\ wp' = [wp EXCEPT !.response = {},
                                   !.error = FetchError([json |-> TRUE])]
               /\ pc' = "failed"
          ELSE IF Len(response.posts) = 0
          THEN wp' = ReturnPosts([wp EXCEPT !.response = {}])
               /\ pc' = "returned"
          ELSE LET pushed == [wp EXCEPT !.response = {},
                                        !.posts = @ \o response.posts,
                                        !.page = @ + 1]
               IN  IF PastLast(pushed.page, response.totalPages)
                   THEN wp' = ReturnPosts(pushed) /\ pc' = "returned"
                   ELSE /\ wp' = [pushed EXCEPT
                                     !.requests = Append(@, pushed.page)]
                        /\ pc' = "fetching"
    /\ UNCHANGED <<item, metrics, visualParams, rng, ndraws, noise, sample,
                   flows, seen, nreq, fmt, canvas, config, renders, master,
                   output, files, errors, logger, imageData, batch, web>>

InitWp ==
    /\ pc = "ready"
    /\ wp \in {[site |-> st, calls |-> 0, cachedPosts |-> {}, posts |-> <<>>,
                page |-> 1, hasMore |-> TRUE, requests |-> <<>>,
                returned |-> {}, response |-> {}, error |-> {}] :
            st \in Sites}
    /\ item = Nil
    /\ metrics = Nil
    /\ visualParams = Nil
    /\ rng = Nil
    /\ ndraws = 0
    /\ noise = Nil
    /\ sample = Nil
    /\ flows = Nil
    /\ seen = [it \in {} |-> Nil]
    /\ nreq = 0
    /\ fmt = 0
    /\ canvas = <<>>
    /\ config \in Configs
    /\ renders = 0
    /\ master = Nil
    /\ output = Nil
    /\ files = <<>>
    /\ errors = 0
    /\ logger = Nil
    /\ imageData = Nil
    /\ batch = Nil
    /\ web = Nil

\* the site answers as it should, or with an error
NextWp ==
    \/ FetchAllPosts
    \/ Fetched(Respond(wp.site, wp.page))
    \/ Fetched(ServerError)
    \/ Fetched(BadRequest)
    \/ Fetched(NetworkError)
    \/ FetchPage(TRUE)
    \/ FetchPage(FALSE)

\* an awaited response arrives and the function runs on
SpecWp == InitWp /\ [][NextWp]_vars /\ WF_vars(NextWp)

-----------------------------------------------------------------------------
(* The web application: Generate clicks, p5 sketches and the 100 ms timer. *)
(* Every handler runs to its end before the next one starts.  new p5(..)   *)
(* runs setup() and draw() at once when the document has finished loading  *)
(* and otherwise leaves them to the load event of the window; the model    *)
(* takes both cases.  A sketch is "pending" (no canvas yet), "rendered"    *)
(* (background, flows and texture painted) or "removed".                   *)

\* new p5(sketch): the state of the sketch when the constructor returns
NewSketch(loaded) == IF loaded THEN "rendered" ELSE "pending"

\* cleanupSketches(): the master sketch is removed, this.sketches = {}, the
\* two containers are emptied
cleanupSketches(w) ==
    [w EXCEPT !.state = [k \in DOMAIN w.state |->
                            IF k = w.master THEN "removed" ELSE w.state[k]],
              !.master = 0,
              !.landscape = Nil,
              !.square = Nil]

\* generateMasterImage(): the master sketch is made and the timer is set
generateMasterImage(w) ==
    LET id == w.clicks + 1
    IN  [w EXCEPT !.state = [k \in DOMAIN w.state \cup {id} |->
                                IF k = id THEN NewSketch(w.loaded)
                                ELSE w.state[k]],
                  !.master = id,
                  !.timers = @ \cup {id},
                  !.clicks = id]

\* a click on Generate with content: generateImages()
ClickGenerate ==
    /\ pc = "page"
    /\ web.clicks < MaxRequests
    /\ web' = generateMasterImage(cleanupSketches(web))
    /\ UNCHANGED <<pc, item, metrics, visualParams, rng, ndraws, noise,
                   sample, flows, seen, nreq, fmt, canvas, config, renders,
                   master, output, files, errors, logger, imageData, batch,
                   wp>>

\* the load event of the window: the sketches that wait for it run setup()
\* and draw()
WindowLoad ==
    /\ pc = "page"
    /\ ~ web.loaded
    /\ web' = [web EXCEPT
                  !.loaded = TRUE,
                  !.state = [k \in DOMAIN web.state |->
                                IF web.state[k] = "pending" THEN "rendered"
                                ELSE web.state[k]]]
    /\ UNCHANGED <<pc, item, metrics, visualParams, rng, ndraws, noise,
                   sample, flows, seen, nreq, fmt, canvas, config, renders,
                   master, output, files, errors, logger, imageData, batch,
                   wp>>

\* the timer of a click fires: createCroppedVersions() reads
\* this.sketches.master.canvas and derives the two canvases from it; with no
\* canvas there, createCroppedCanvas throws once the landscape container is
\* emptied
TimerFires(id) ==
    /\ pc = "page"
    /\ id \in web.timers
    /\ LET m == web.master
           read == [timer |-> id, sketch |-> m, state |-> web.state[m]]
           fired == [web EXCEPT !.timers = @ \ {id},
                                !.reads = Append(@, read)]
       IN  IF web.state[m] = "rendered"
           THEN web' = [fired EXCEPT
                           !.landscape = [from |-> m, state |-> web.state[m],
                                          mode |-> config.cropMode],
                           !.square = [from |-> m, state |-> web.state[m],
                                       mode |-> config.cropMode]]
           ELSE web' = [fired EXCEPT !.landscape = Nil]
    /\ UNCHANGED <<pc, item, metrics, visualParams, rng, ndraws, noise,
                   sample, flows, seen, nreq, fmt, canvas, config, renders,
                   master, output, files, errors, logger, imageData, batch,
                   wp>>

InitWeb ==
    /\ pc = "page"
    /\ web \in {[loaded |-> l, clicks |-> 0, master |-> 0,
                 state |-> [k \in {} |-> "pending"], timers |-> {},
                 reads |-> <<>>, landscape |-> Nil, square |-> Nil] :
                   l \in BOOLEAN}
    /\ item = Nil
    /\ metrics = Nil
    /\ visualParams = Nil
    /\ rng = Nil
    /\ ndraws = 0
    /\ noise = Nil
    /\ sample = Nil
    /\ flows = Nil
    /\ seen = [it \in {} |-> Nil]
    /\ nreq = 0
    /\ fmt = 0
    /\ canvas = <<>>
    /\ config \in Configs
    /\ renders = 0
    /\ master = Nil
    /\ output = Nil
    /\ files = <<>>
    /\ errors = 0
    /\ logger = Nil
    /\ imageData = Nil
    /\ batch = Nil
    /\ wp = Nil

NextWeb ==
    \/ ClickGenerate
    \/ WindowLoad
    \/ \E id \in 1 .. MaxRequests : TimerFires(id)

SpecWeb == InitWeb /\ [][NextWeb]_vars

-----------------------------------------------------------------------------
(* Logger *)

\* const levels = { debug: 0, info: 1, warn: 2, error: 3 }
levels == [debug |-> 0, info |-> 1, warn |-> 2, error |-> 3]

\* the keys of levels, as code units
LevelKeys ==
    [debug |-> <<100, 101, 98, 117, 103>>,
     info |-> <<105, 110, 102, 111>>,
     warn |-> <<119, 97, 114, 110>>,
     error |-> <<101, 114, 114, 111, 114>>]

\* the lower-case names every object inherits: levels["constructor"] is the
\* function Object and levels["__proto__"] is Object.prototype
InheritedKeys ==
    [constructor |-> <<99, 111, 110, 115, 116, 114, 117, 99, 116, 111, 114>>,
     proto |-> <<95, 95, 112, 114, 111, 116, 111, 95, 95>>]

\* the values of logging.logLevel tried, as code units: "debug", "info",
\* "warn", "error", "WARN", "Error", "Debug", "verbose", "constructor",
\* "İnfo" and "Karn"
LogLevels ==
    {LevelKeys.debug, LevelKeys.info, LevelKeys.warn, LevelKeys.error,
     <<87, 65, 82, 78>>, <<69, 114, 114, 111, 114>>,
     <<68, 101, 98, 117, 103>>, <<118, 101, 114, 98, 111, 115, 101>>,
     InheritedKeys.constructor,
     <<304, 110, 102, 111>>, <<8490, 97, 114, 110>>}

\* levels[name] for the lower-cased name: the set of the value found, empty
\* for undefined; a number is [num |-> n], an inherited object [obj |-> key]
Lookup(level) ==
    IF ~ LowersToAscii(level) THEN {}
    ELSE LET name == toLowerCaseKept(level)
         IN  {[num |-> levels[k]] : k \in {k \in DOMAIN levels :
                                               LevelKeys[k] = name}}
             \cup {[obj |-> k] : k \in {k \in DOMAIN InheritedKeys :
                                            InheritedKeys[k] = name}}

\* a || b of JavaScript, for a looked up value a: undefined and 0 are falsy
OrElse(a, b) ==
    IF a = {} \/ a = {[num |-> 0]} THEN b ELSE CHOOSE v \in a : TRUE

\* parseLogLevel(level): levels[level.toLowerCase()] || 1
parseLogLevel(level) == OrElse(Lookup(level), [num |-> 1])

\* shouldLog(level): levels[level] >= this.logLevel; an object on the right
\* converts to NaN and the comparison is false
shouldLog(lg, level) ==
    /\ "num" \in DOMAIN lg.logLevel
    /\ levels[level] >= lg.logLevel.num

\* level.toUpperCase().padEnd(5) for the four names
LevelTags ==
    [debug |-> "DEBUG", info |-> "INFO ", warn |-> "WARN ", error |-> "ERROR"]

\* formatMessage(level, message), without the time stamp
formatMessage(level, message) == [tag |-> LevelTags[level], message |-> message]

\* the method of console that log() calls
ConsoleMethod(level) ==
    IF level = "error" THEN "error" ELSE IF level = "warn" THEN "warn" ELSE "log"

\* new Logger(config): the level is parsed and the log file is emptied
NewLogger(logLevel) ==
    [config |-> [logLevel |-> logLevel],
     logLevel |-> parseLogLevel(logLevel),
     console |-> <<>>, file |-> <<>>, calls |-> 0, last |-> Nil]

\* the logger after log(level, message)
Logged(lg, level, message) ==
    IF ~ shouldLog(lg, level) THEN lg
    ELSE [lg EXCEPT
             !.console = Append(@, [method |-> ConsoleMethod(level),
                                    line |-> formatMessage(level, message)]),
             !.file = Append(@, formatMessage(level, message))]

\* '-'.repeat(80)
SeparatorLine == [repeat |-> "-", times |-> 80]

\* the logger after separator(): the line is written whatever the level
Separated(lg) ==
    [lg EXCEPT !.console = Append(@, [method |-> "log", line |-> SeparatorLine]),
               !.file = Append(@, SeparatorLine)]

\* the messages of summary(stats); a text with ${..} is the text before the
\* hole and the value put in it
\* if (value): undefined, the empty string and the number 0 are falsy
Truthy(v) ==
    \/ v.type = "string" /\ v.text # ""
    \/ v.type = "number" /\ v.number # 0

SummaryMessages(stats) ==
    << [text |-> "Generation Summary:", value |-> {}],
       [text |-> "  Total items: ", value |-> {stats.total}],
       [text |-> "  Successful: ", value |-> {stats.successful}],
       [text |-> "  Failed: ", value |-> {stats.failed}],
       [text |-> "  Images generated: ", value |-> {stats.imagesGenerated}] >>
    \o (IF Truthy(stats.duration)
        THEN <<[text |-> "  Duration: ", value |-> {stats.duration}]>>
        ELSE <<>>)

RECURSIVE InfoAll(_, _)
InfoAll(lg, messages) ==
    IF messages = <<>> THEN lg
    ELSE InfoAll(Logged(lg, "info", Head(messages)), Tail(messages))

\* log(level, message)
Log(level, message) ==
    /\ pc = "logging"
    /\ logger.calls < MaxLines
    /\ logger' =
          Logged([logger EXCEPT !.calls = @ + 1,
                                !.last = [op |-> "log", level |-> level,
                                          message |-> message]],
                 level, message)
    /\ UNCHANGED <<pc, item, metrics, visualParams, rng, ndraws, noise,
                   sample, flows, seen, nreq, fmt, canvas, config, renders,
                   master, output, files, errors,
                   imageData, batch, wp, web>>

\* separator()
Separator ==
    /\ pc = "logging"
    /\ logger.calls < MaxLines
    /\ logger' =
          Separated([logger EXCEPT !.calls = @ + 1,
                                   !.last = [op |-> "separator"]])
    /\ UNCHANGED <<pc, item, metrics, visualParams, rng, ndraws, noise,
                   sample, flows, seen, nreq, fmt, canvas, config, renders,
                   master, output, files, errors,
                   imageData, batch, wp, web>>

\* summary(stats): a separator, the info lines, a separator
Summary(stats) ==
    /\ pc = "logging"
    /\ logger.calls < MaxLines
    /\ logger' =
          Separated(InfoAll(Separated([logger EXCEPT
                                          !.calls = @ + 1,
                                          !.last = [op |-> "summary"]]),
                            SummaryMessages(stats)))
    /\ UNCHANGED <<pc, item, metrics, visualParams, rng, ndraws, noise,
                   sample, flows, seen, nreq, fmt, canvas, config, renders,
                   master, output, files, errors,
                   imageData, batch, wp, web>>

\* the statistics given to summary(): without a duration, and with a
\* duration that is a string, the empty string, the number 0 or another
\* number
SummaryStats ==
    {[total |-> 2, successful |-> 1, failed |-> 1, imagesGenerated |-> 2,
      duration |-> d] :
        d \in {[type |-> "undefined", text |-> "", number |-> 0],
                [type |-> "string", text |-> "0.12s", number |-> 0],
                [type |-> "string", text |-> "", number |-> 0],
                [type |-> "number", text |-> "", number |-> 0],
                [type |-> "number", text |-> "", number |-> 3]}}

\* the messages given to log()
LogMessages ==
    {[text |-> "started", value |-> {}], [text |-> "Found ", value |-> {2}]}

InitLog ==
    /\ pc = "logging"
    /\ logger \in {NewLogger(l) : l \in LogLevels}
    /\ config \in Configs
    /\ renders = 0
    /\ master = Nil
    /\ output = Nil
    /\ files = <<>>
    /\ errors = 0
    /\ item = Nil
    /\ metrics = Nil
    /\ visualParams = Nil
    /\ rng = Nil
    /\ ndraws = 0
    /\ noise = Nil
    /\ sample = Nil
    /\ flows = Nil
    /\ seen = [it \in {} |-> Nil]
    /\ nreq = 0
    /\ fmt = 0
    /\ canvas = <<>>
    /\ imageData = Nil
    /\ batch = Nil
    /\ wp = Nil
    /\ web = Nil

NextLog ==
    \/ \E level \in DOMAIN levels, message \in LogMessages :
          Log(level, message)
    \/ Separator
    \/ \E stats \in SummaryStats : Summary(stats)

SpecLog == InitLog /\ [][NextLog]_vars

-----------------------------------------------------------------------------
(* Properties *)

\* C1: two requests with the same text and the same stroke overrides produce
\* equal metrics and equal visual parameters, and their renderers start from
\* the same generator state and the same noise table, whatever requests ran
\* before or between them.  seen[item] holds what the first request of the
\* item produced.
C1_Determinism ==
    pc = "constructed" =>
        /\ seen[item].metrics = metrics
        /\ seen[item].visualParams = visualParams
        /\ seen[item].rng = rng
        /\ seen[item].noise = noise

\* a repeated item is constructed after a request for another text
C1_Witness ==
    /\ pc = "constructed"
    /\ seen[item].req < nreq
    /\ \E other \in Items :
          /\ other.text # item.text
          /\ seen[other] # Nil
          /\ seen[other].req > seen[item].req

\* (w * m) mod 2^32 by doubling and adding, for an integer m >= 0
RECURSIVE TimesMod(_, _)
TimesMod(w, m) ==
    IF m = 0 THEN ZeroWord
    ELSE IF m % 2 = 1 THEN WordAdd(w, TimesMod(WordAdd(w, w), m \div 2))
    ELSE TimesMod(WordAdd(w, w), m \div 2)

\* (w * 1664525 + 1013904223) mod 2^32
LcgNext(w) ==
    WordAdd(TimesMod(w, LcgMultiplier),
            [hi |-> LcgIncrement \div Two16, lo |-> LcgIncrement % Two16])

\* C2: for every seed in [0, 2^32) and after any number of random() calls the
\* state is an integer in [0, 2^32 - 1], so the value returned, state / 2^32,
\* is in [0, 1) and never 1; each call takes the state to
\* (state * 1664525 + 1013904223) mod 2^32, and the product stays below 2^53,
\* where the arithmetic of doubles is exact.
C2_LcgState ==
    /\ [](IsWord32(rng.current))
    /\ [][/\ rng'.current = LcgNext(rng.current)
          /\ ExactInDouble(LcgProduct(rng.current))]_vars

\* draws were made from the largest seed, and the next product is 2^32 or
\* more, so the reduction has work to do
C2_Witness ==
    /\ ndraws >= 2
    /\ rng.seed = [hi |-> 65535, lo |-> 65535]
    /\ LcgProduct(rng.current).p2 > 0

\* C3 as stated: from seed 42 the first random() leaves the state 1013904223
C3_Original ==
    (rng.seed = Word(42) /\ ndraws = 1) => rng.current = Word(LcgIncrement)

\* C3, amended: from seed 42 the first random() leaves the state
\* (42 * 1664525 + 1013904223) mod 2^32 = 1083814273, so the first draw is
\* 1083814273 / 2^32
C3_FirstDraw ==
    (rng.seed = Word(42) /\ ndraws = 1) => rng.current = Word(1083814273)

C3_Witness == rng.seed = Word(42) /\ ndraws = 1

\* C4: every value noise.get returns is in [0, 1], that is, the interpolated
\* value before the remap is in [-1, 1] (value is a numerator over
\* 2 * ResDen)
C4_NoiseRange ==
    sample # Nil =>
        /\ sample.value >= 0
        /\ sample.value <= 2 * ResDen
        /\ sample.value - ResDen >= 0 - ResDen
        /\ sample.value - ResDen <= ResDen

\* a sample strictly inside a cell whose interpolated value is positive
C4_Witness ==
    /\ sample # Nil
    /\ sample.pt.xf > 0
    /\ sample.pt.yf > 0
    /\ sample.value > ResDen

\* the table of a noise field: 512 entries, the first 256 a permutation of
\* 0..255 built with swap indexes 0 <= j <= i, the last 256 a copy of them
TableWellFormed(nz) ==
    /\ DOMAIN nz.permutation = 0 .. 511
    /\ {nz.permutation[i] : i \in 0 .. 255} = 0 .. 255
    /\ \A i \in 0 .. 255 : nz.permutation[i + 256] = nz.permutation[i]
    /\ LET js == ShuffleFrom(nz.seed).js
       IN  \A i \in 1 .. 255 : js[i] \in 0 .. i

\* C5: for every seed the table has length 512, its first 256 entries hold
\* each of 0..255 exactly once, every swap index j is in 0..i, entry i + 256
\* equals entry i, and no call of get() changes the table
C5_Table ==
    /\ [](TableWellFormed(noise))
    /\ [][noise' = noise]_vars

\* get() has read the copied half of a table that is not the identity
C5_Witness ==
    /\ sample # Nil
    /\ sample.pt.xi = 255
    /\ noise.permutation[255] # 255
    /\ noise.permutation[noise.permutation[256] + 255] = sample.corners.ba

\* C6: paletteIndex is an integer in 0..9, also when the 32-bit hash is
\* negative or -2^31 before Math.abs; the palette table has 10 entries, each
\* with at least 2 background colours and exactly 3 accents; so the palette
\* lookup of generate() is defined
C6_PaletteDefined ==
    /\ Len(initColorPalettes) = 10
    /\ \A i \in 1 .. Len(initColorPalettes) :
          /\ Len(initColorPalettes[i].bg) >= 2
          /\ Len(initColorPalettes[i].accents) = 3
    /\ pc = "mapped" =>
          /\ visualParams.p.paletteIndex \in 0 .. 9
          /\ PaletteAt(visualParams.p.paletteIndex) # Nil

\* the parameters of a text whose 32-bit hash is -2^31 before Math.abs
C6_Witness ==
    /\ pc = "mapped"
    /\ HashLoop(metrics.cleanContent, ZeroWord, 1, Len(metrics.cleanContent))
          = [hi |-> 2 ^ 15, lo |-> 0]

\* hash = (hash * 31 + charCode) mod 2^32 over the first n characters
RECURSIVE Fold31(_, _)
Fold31(str, n) ==
    IF n = 0 THEN ZeroWord
    ELSE LET h == Fold31(str, n - 1)
             l == (h.lo * 31) + str[n]
         IN  [hi |-> ((h.hi * 31) + (l \div Two16)) % Two16, lo |-> l % Two16]

\* the absolute value of the signed 32-bit integer the word w stands for
AbsSigned(w) == IF w.hi >= 2 ^ 15 THEN WordSub(ZeroWord, w) ELSE w

\* C7 as stated: the content hash is the unsigned fold itself
C7_Original ==
    pc = "analyzed" =>
        /\ hashContent(metrics.cleanContent).mag
              = Fold31(metrics.cleanContent, Len(metrics.cleanContent))
        /\ getHash(metrics.cleanContent).mag
              = Fold31(metrics.cleanContent, Len(metrics.cleanContent))

\* C7, amended: the content hash of hashContent and of getHash is the
\* absolute value of the fold read as a signed 32-bit integer: the fold f
\* itself when f < 2^31, and 2^32 - f otherwise; it is in [0, 2^31]
C7_HashIsAbsOfFold ==
    pc = "analyzed" =>
        LET f == Fold31(metrics.cleanContent, Len(metrics.cleanContent))
        IN  /\ hashContent(metrics.cleanContent)
                  = [neg |-> FALSE, mag |-> AbsSigned(f)]
            /\ getHash(metrics.cleanContent)
                  = [neg |-> FALSE, mag |-> AbsSigned(f)]
            /\ ~ WordLess([hi |-> 2 ^ 15, lo |-> 0],
                          hashContent(metrics.cleanContent).mag)

\* a text whose fold is 2^31 or more
C7_Witness ==
    /\ pc = "analyzed"
    /\ Fold31(metrics.cleanContent, Len(metrics.cleanContent)).hi >= 2 ^ 15
    /\ Fold31(metrics.cleanContent, Len(metrics.cleanContent)).lo > 0

\* C8: shapeVertices is paragraphCount clamped to [3, 20]: 3 for 0, 1 and 3,
\* 20 for 20 and 50, always in 3..20, so the renderer never falls back to 8
C8_ShapeVertices ==
    /\ pc \in {"mapped", "constructed", "flows"} =>
          LET n == metrics.paragraphCount
              v == visualParams.p.shapeVertices
          IN  /\ v \in 3 .. 20
              /\ n <= 3 => v = 3
              /\ n >= 20 => v = 20
              /\ n \in 3 .. 20 => v = n
              /\ n \in {0, 1, 3} => v = 3
              /\ n \in {20, 50} => v = 20
    /\ pc = "flows" => flows.c.shapeVertices = visualParams.p.shapeVertices

\* the renderer has its loop constants for a metrics value of 0 paragraphs
C8_Witness == pc = "flows" /\ metrics.paragraphCount = 0

\* max(3, floor(min(readingTime, 10)))
LayersExpected(rt) == IF rt >= 10 THEN 10 ELSE IF rt <= 3 THEN 3 ELSE rt

\* C9 as stated: the layers field generateVisualParams returns is in 3..10
\* and equals max(3, floor(min(readingTime, 10)))
C9_Original ==
    pc = "mapped" =>
        /\ visualParams.p.layers \in 3 .. 10
        /\ visualParams.p.layers = LayersExpected(metrics.readingTime)

\* C9, amended: the layers field generateVisualParams returns is
\* min(readingTime, 10), an integer in 0..10; the lower bound is applied by
\* the renderer, whose layer count numLayers is an integer in 3..10 equal to
\* max(3, floor(min(readingTime, 10)))
C9_Layers ==
    /\ pc \in {"mapped", "constructed", "flows"} =>
          /\ visualParams.p.layers \in 0 .. 10
          /\ metrics.readingTime <= 10 =>
                visualParams.p.layers = metrics.readingTime
          /\ metrics.readingTime >= 10 => visualParams.p.layers = 10
    /\ pc = "flows" =>
          /\ flows.c.numLayers \in 3 .. 10
          /\ flows.c.numLayers = LayersExpected(metrics.readingTime)

\* the renderer has its loop constants for a reading time below 3 minutes
C9_Witness ==
    /\ pc = "flows"
    /\ metrics.readingTime = 1
    /\ visualParams.p.layers = 1
    /\ flows.c.numLayers = 3

\* the indexes at which a token (a maximal run of characters that are not
\* white space) of s starts
TokenStarts(s) ==
    {i \in 1 .. Len(s) : ~ IsSpace(s[i]) /\ (i = 1 \/ IsSpace(s[i - 1]))}

\* the token of s that starts at index i
TokenAt(s, i) ==
    LET stops == {k \in i .. Len(s) : IsSpace(s[k])}
        last == IF stops = {} THEN Len(s)
                ELSE (CHOOSE k \in stops : \A m \in stops : k <= m) - 1
    IN  SubSeq(s, i, last)

HasWordChar(tok) == \E k \in 1 .. Len(tok) : IsWordChar(tok[k])

\* the starts of the tokens that keep a word character
WordStarts(s) == {i \in TokenStarts(s) : HasWordChar(TokenAt(s, i))}

\* the number of word characters of s
WordChars(s) == Cardinality({k \in 1 .. Len(s) : IsWordChar(s[k])})

\* C10: wordCount is the number of white-space separated tokens of the
\* lower-cased cleaned text that keep a word character; avgWordLength is the
\* mean length of the stripped tokens rounded to one decimal, 0 without
\* words; readingTime is ceil(wordCount / 200); "Hello world. This is a
\* test." gives 6 words, 1 minute and 3.5
C10_Metrics ==
    pc = "analyzed" =>
        LET low == toLowerCaseKept(cleanText(item.text))
            n == Cardinality(WordStarts(low))
            chars == WordChars(low)
        IN  /\ metrics.wordCount = n
            /\ n = 0 => metrics.avgWordLength = 0
            /\ n > 0 =>
                  /\ 2 * ((metrics.avgWordLength * n) - (10 * chars)) <= n
                  /\ 2 * ((10 * chars) - (metrics.avgWordLength * n)) < n
            /\ metrics.readingTime * 200 >= n
            /\ (metrics.readingTime - 1) * 200 < n
            /\ item.text = TextHello =>
                  /\ metrics.wordCount = 6
                  /\ metrics.readingTime = 1
                  /\ metrics.avgWordLength = 35

\* the literal text has been analysed
C10_Witness ==
    /\ pc = "analyzed"
    /\ item.text = TextHello
    /\ Len(metrics.words) = 6

-----------------------------------------------------------------------------
(* C11: the paragraph count *)

\* s starts with an opening tag of the element p: "<p" or "<P", then the end
\* of the tag name (">", "/" or white space), then a ">" somewhere
StartsPTag(s) ==
    /\ Len(s) >= 3
    /\ s[1] = Ch.lt
    /\ s[2] \in {Ch.p, Ch.P}
    /\ s[3] = Ch.gt \/ s[3] = Ch.slash \/ IsSpace(s[3])
    /\ IndexFrom(s, Ch.gt, 3) # 0

\* the number of opening tags of the element p in s, read left to right
RECURSIVE PTagCount(_)
PTagCount(s) ==
    IF s = <<>> THEN 0
    ELSE IF StartsPTag(s)
         THEN 1 + PTagCount(Drop(s, IndexFrom(s, Ch.gt, 3)))
         ELSE PTagCount(Tail(s))

\* the paragraph count the claim states for the raw text
ParagraphsExpected(raw) ==
    IF PTagCount(raw) > 0 THEN PTagCount(raw)
    ELSE Max(Len(SelectSeq(SplitParagraphs(raw, <<>>), HasText)), 1)

\* C11 as stated: the paragraph count is the number of <p ...> opening tags
\* when there is one, tags of other elements not being counted, and
\* otherwise the number of non-empty segments between blank lines, floored
\* at 1; it is at least 1 for every text, the empty one included
C11_Original ==
    pc = "analyzed" =>
        /\ metrics.paragraphCount = ParagraphsExpected(item.text)
        /\ metrics.paragraphCount >= 1

-----------------------------------------------------------------------------
(* C12: the shape of a flow *)

\* the kind the thresholds give for the offset and the smoothness (in
\* hundredths), and for nothing else
KindExpected(offset, smoothness) ==
    LET sel == ((offset * 37) + smoothness) % 100
    IN  CASE sel \in 0 .. 19 -> "circle"
          [] sel \in 20 .. 34 -> "star"
          [] sel \in 35 .. 49 -> "rectangle"
          [] sel \in 50 .. 69 -> "polygon"
          [] sel \in 70 .. 99 -> "blob"

\* the positions of the canvas where the shape of flow f of layer l is
ShapesOf(l, f) ==
    {k \in 1 .. Len(canvas) :
        canvas[k].op = "shape" /\ canvas[k].layer = l /\ canvas[k].flow = f}

\* C12: each flow of drawOrganicFlows paints exactly one shape, and its kind
\* is the one the thresholds give for (offset * 37 + smoothness * 100) mod
\* 100, a function of the offset and the smoothness alone: the generator
\* state and the number of draws made do not enter
C12_ShapeKinds ==
    pc \in {"flows", "texture", "rendered"} =>
        /\ \A k \in 1 .. Len(canvas) :
              canvas[k].op = "shape" =>
                 /\ canvas[k].offset = canvas[k].flow + (canvas[k].layer * 100)
                 /\ canvas[k].kind =
                       KindExpected(canvas[k].offset,
                                    visualParams.p.smoothness)
        /\ \A l \in 0 .. (flows.c.numLayers - 1),
              f \in 0 .. (flows.c.numFlows - 1) :
              Cardinality(ShapesOf(l, f)) =
                 IF l < flows.layer \/ (l = flows.layer /\ f < flows.flow)
                 THEN 1 ELSE 0

\* a finished render that painted shapes of all five kinds
C12_Witness ==
    /\ pc = "rendered"
    /\ ndraws > 0
    /\ {canvas[k].kind :
           k \in {j \in 1 .. Len(canvas) : canvas[j].op = "shape"}}
          = {"circle", "star", "rectangle", "polygon", "blob"}

-----------------------------------------------------------------------------
(* C13, C14: the crop modes *)

\* the output of a direct crop is asked for, of a size the master covers
DirectWithin ==
    /\ pc = "cropped"
    /\ config.cropMode = "direct"
    /\ output.format.width <= master.width
    /\ output.format.height <= master.height

\* C13: in direct crop mode, for a target no wider and no higher than the
\* master, the output has the target's dimensions and its pixel (x, y) is
\* the master's pixel (x, y); a target of the master's size gives the master
\* again; the master is not changed by the crop
C13_DirectCrop ==
    /\ [](DirectWithin =>
            /\ output.canvas.width = output.format.width
            /\ output.canvas.height = output.format.height
            /\ \A x \in 0 .. (output.canvas.width - 1),
                  y \in 0 .. (output.canvas.height - 1) :
                  PixelAt(output.canvas, x, y)
                     = [image |-> master, x |-> x, y |-> y]
            /\ (/\ output.format.width = master.width
                /\ output.format.height = master.height)
                  => /\ output.canvas.width = master.width
                     /\ output.canvas.height = master.height
                     /\ \A x \in 0 .. (master.width - 1),
                           y \in 0 .. (master.height - 1) :
                           PixelAt(output.canvas, x, y).x = x
                              /\ PixelAt(output.canvas, x, y).y = y)
    /\ [][pc = "rendered" /\ pc' = "cropped" => master' = master]_vars

\* a landscape crop of the generator's master
C13_Witness ==
    /\ DirectWithin
    /\ master.width = MasterSize
    /\ output.format.width = 1200
    /\ output.format.height = 628
    /\ PixelAt(output.canvas, 1199, 627) # Nil

\* the temporary canvas of resizeAndCrop, and the rectangle the master was
\* scaled to on it: the intermediate image
TempCanvas == output.canvas.draws[1].image
Scaled == [width |-> TempCanvas.draws[1].dw, height |-> TempCanvas.draws[1].dh]

\* the sum of the number v and the integer t, in real arithmetic
PlusInt(v, t) ==
    [num |-> v.num + (t * v.den), den |-> v.den,
     err |-> v.err, errden |-> v.errden]

\* the double v is the fraction n / d, but for the rounding of the doubles
IsFraction(v, n, d) == CompareFractions(v.num, v.den, n, d) = 0

\* C14: in resize mode, for the master and every target size of the
\* program (formatMap of getFormats), the
\* output has the target's dimensions; the intermediate image is the master
\* scaled by max(targetW / masterW, targetH / masterH), so at least targetW
\* wide and targetH high; the crop rectangle starts at
\* ((scaledW - targetW) / 2, (scaledH - targetH) / 2), both offsets are
\* >= 0, and the rectangle lies inside the intermediate image
C14_ResizeCrop ==
    (pc = "cropped" /\ config.cropMode = "resize") =>
        LET tW == output.format.width
            tH == output.format.height
            mW == master.width
            mH == master.height
            crop == output.canvas.draws[1]
        IN  /\ output.canvas.width = tW
            /\ output.canvas.height = tH
            /\ IF tW * mH >= tH * mW
               THEN /\ IsFraction(Scaled.width, tW, 1)
                    /\ IsFraction(Scaled.height, mH * tW, mW)
               ELSE /\ IsFraction(Scaled.width, mW * tH, mH)
                    /\ IsFraction(Scaled.height, tH, 1)
            /\ AtLeast(Scaled.width, tW)
            /\ AtLeast(Scaled.height, tH)
            /\ crop.sx = HalfDifference(Scaled.width, tW)
                  \/ (crop.sx = Num(0) /\ IsFraction(Scaled.width, tW, 1))
            /\ crop.sy = HalfDifference(Scaled.height, tH)
                  \/ (crop.sy = Num(0) /\ IsFraction(Scaled.height, tH, 1))
            /\ ~ IsNegative(crop.sx)
            /\ ~ IsNegative(crop.sy)
            /\ NotAbove(PlusInt(crop.sx, tW), Scaled.width)
            /\ NotAbove(PlusInt(crop.sy, tH), Scaled.height)

\* the landscape format is cropped from the middle of the master, scaled by
\* 1: 286 rows are left out above it and 286 below
C14_Witness ==
    /\ pc = "cropped"
    /\ config.cropMode = "resize"
    /\ master.width = MasterSize
    /\ output.format.name = "landscape"
    /\ IsFraction(Scaled.height, 1200, 1)
    /\ IsFraction(output.canvas.draws[1].sy, 286, 1)
    /\ output.canvas.height = 628

-----------------------------------------------------------------------------
(* C15, C18: the formats of one item *)

\* the master canvas the output canvas was derived from
MasterOf(cv) ==
    IF config.cropMode = "resize" THEN cv.draws[1].image.draws[1].image
    ELSE cv.draws[1].image

\* C15 as stated: for one item the master image is rendered exactly once,
\* and the output of every format is derived from that one render
C15_Original ==
    /\ renders <= 1
    /\ pc = "cropped" => MasterOf(output.canvas).render = 1
    /\ (pc = "done" /\ errors = 0) => renders = 1

\* the file the claim names for the n-th item in the given format:
\* <id>-<format>.png under the output directory
FileExpected(n, name, width, height) ==
    [directory |-> "./output",
     name |-> ItemId(n) \o <<45>> \o NameUnits[name] \o <<46, 112, 110, 103>>,
     width |-> width, height |-> height]

\* C18 as stated: with the formats landscape and square configured and no
\* failure, generateForItem writes and returns one file per format, in the
\* order of the configuration: <id>-landscape.png of 1200x628, then
\* <id>-square.png of 1200x1200, under the output directory, in both crop
\* modes
C18_Original ==
    (pc = "done" /\ errors = 0) =>
        files = <<FileExpected(nreq, "landscape", 1200, 628),
                  FileExpected(nreq, "square", 1200, 1200)>>

-----------------------------------------------------------------------------
(* C17: the level filter of the Logger *)

\* the rank of a level name: debug < info < warn < error
Rank(name) ==
    CASE name = "debug" -> 0
      [] name = "info" -> 1
      [] name = "warn" -> 2
      [] name = "error" -> 3

\* the name a configured level spells, for the four names in lower case
ConfiguredName(level) == CHOOSE k \in DOMAIN LevelKeys : LevelKeys[k] = level

\* C17 as stated: for every configured logLevel L and every message level M
\* among debug, info, warn, error, log(M, msg) writes the message to the
\* console and to the log file if and only if rank(M) >= rank(L); with
\* logLevel debug, debug messages are written
C17_Original ==
    [][(/\ logger # Nil
        /\ \E k \in DOMAIN LevelKeys : LevelKeys[k] = logger.config.logLevel
        /\ logger'.last.op = "log") =>
          LET call == logger'.last
              line == formatMessage(call.level, call.message)
          IN  IF Rank(call.level) >= Rank(ConfiguredName(logger.config.logLevel))
              THEN /\ Len(logger'.console) = Len(logger.console) + 1
                   /\ logger'.console[Len(logger'.console)].line = line
                   /\ logger'.file = Append(logger.file, line)
              ELSE /\ logger'.console = logger.console
                   /\ logger'.file = logger.file]_vars

-----------------------------------------------------------------------------
(* C19: the paragraph structure after HTML stripping *)

\* C19 as stated: for an HTML document of k >= 1 non-empty <p> blocks, the
\* text produced by stripHtml, of the web application and of the command
\* line alike, has paragraphCount = k in the ContentAnalyzer
C19_Original ==
    (pc = "analyzed" /\ "blocks" \in DOMAIN item /\ item.onlyP) =>
        metrics.paragraphCount = item.blocks

-----------------------------------------------------------------------------
(* C20: the order of the painting in generate() *)

\* the number of shapes of a layer the claim names: floor(5 + density * 10),
\* the density in thousandths
ShapesPerLayer == 5 + ((visualParams.p.density * 10) \div 1000)

\* the operation expected at position k of the paint log: the background,
\* then for each layer in increasing index its shapes and its three curves,
\* then the texture
PaintExpected(k) ==
    LET per == ShapesPerLayer + 3
        layer == (k - 2) \div per
        rest == (k - 2) % per
    IN  IF k = 1 THEN [op |-> "background"]
        ELSE IF layer >= flows.c.numLayers THEN [op |-> "texture"]
        ELSE IF rest < ShapesPerLayer
             THEN [op |-> "shape", layer |-> layer, flow |-> rest]
             ELSE [op |-> "curve", layer |-> layer,
                   index |-> rest - ShapesPerLayer]

\* C20: the background is painted first, the texture last and after every
\* shape and curve of every layer, the layers in increasing index, and in
\* each layer floor(5 + density * 10) shapes come before the layer's exactly
\* three curves, each of exactly 51 points
C20_RenderOrder ==
    pc \in {"flows", "texture", "rendered"} =>
        /\ \A k \in 1 .. Len(canvas) :
              LET e == PaintExpected(k)
                  o == canvas[k]
              IN  /\ o.op = e.op
                  /\ o.op \in {"shape", "curve"} => o.layer = e.layer
                  /\ o.op = "shape" => o.flow = e.flow
                  /\ o.op = "curve" => o.index = e.index /\ o.points = 51
        /\ pc = "flows" =>
              Len(canvas) = 1 + (flows.layer * (ShapesPerLayer + 3))
                              + flows.flow
        /\ pc = "texture" =>
              Len(canvas) = 1 + (flows.c.numLayers * (ShapesPerLayer + 3))
        /\ pc = "rendered" =>
              /\ Len(canvas) = 2 + (flows.c.numLayers * (ShapesPerLayer + 3))
              /\ canvas[Len(canvas)].op = "texture"

\* a finished rendering of more than three layers of fifteen shapes
C20_Witness ==
    /\ pc = "rendered"
    /\ flows.c.numLayers > 3
    /\ ShapesPerLayer = 15
    /\ Len(canvas) = 2 + (flows.c.numLayers * 18)

-----------------------------------------------------------------------------
(* C21: what drawNoiseTexture changes *)

\* the absolute difference of two bytes
ByteDistance(a, b) == IF a < b THEN b - a ELSE a - b

\* C21: after drawNoiseTexture a byte differs from its previous value only
\* if it is the R, G or B byte of a pixel with even x and even y; every
\* byte of a pixel with odd x or odd y and every alpha byte is unchanged;
\* every byte is in 0 .. 255 and differs from its previous value by at most
\* 5; every index the loops compute is inside the buffer
C21_TextureFrame ==
    (pc = "rendered" /\ imageData # Nil) =>
        /\ \A k \in DOMAIN imageData.data :
              LET x == (k \div 4) % imageData.width
                  y == (k \div 4) \div imageData.width
                  now == imageData.data[k]
                  old == imageData.before[k]
              IN  /\ now \in 0 .. 255
                  /\ ByteDistance(now, old) <= 5
                  /\ (x % 2 = 1 \/ y % 2 = 1 \/ k % 4 = 3) => now = old
        /\ \A index \in TextureIndexes(imageData.width, imageData.height) :
              index >= 0 /\ index + 3 < imageData.length

\* a texture that has raised one byte, lowered another and left a byte at
\* 255 where the noise would have raised it
C21_Witness ==
    /\ pc = "rendered"
    /\ imageData # Nil
    /\ \E k \in DOMAIN imageData.data :
          imageData.data[k] > imageData.before[k]
    /\ \E k \in DOMAIN imageData.data :
          imageData.data[k] < imageData.before[k]

-----------------------------------------------------------------------------
(* C22: the gradient directions *)

\* the offsets of a sample point from a corner, as numerators over GridN
GradOffsets == (0 - GridN) .. GridN

\* C22 as stated: the four values 0, 1, 2, 3 of hash & 3 give four pairwise
\* different functions of (x, y): any two of them differ at some point
C22_Original ==
    (pc = "sampling" /\ sample # Nil) =>
        \A h1, h2 \in 0 .. 3 :
            h1 # h2 =>
                \E x, y \in GradOffsets :
                    grad(sample.corners.aa - (sample.corners.aa % 4) + h1,
                         x, y)
                      # grad(sample.corners.aa - (sample.corners.aa % 4) + h2,
                             x, y)

-----------------------------------------------------------------------------
(* C23: the depth bands of the flowing curves *)

\* the curves painted so far
CurvesOf(log) == {k \in 1 .. Len(log) : log[k].op = "curve"}

\* C23 as stated: over the curves drawn, curveOffset mod 5 takes each of the
\* five residues 0 .. 4, one depth band for each
C23_Original ==
    pc = "rendered" =>
        {canvas[k].offset % 5 : k \in CurvesOf(canvas)} = 0 .. 4

\* the depth of each residue of the offset: the doubles 0.1, 0.2, 0.4 and
\* 0.5, and for the residue 2 the double next above 0.3, which is what
\* 0.4 * 0.5 + 0.1 gives
DepthBands ==
    << Literal(1, 10), Literal(2, 10), Above(Literal(3, 10)),
       Literal(4, 10), Literal(5, 10) >>

\* height * baseDepth for the master of 1200: 120, 240, the double next
\* above 360, 480 and 600
DepthLimits ==
    << DInt(120), DInt(240), Above(DInt(360)), DInt(480), DInt(600) >>

\* C23: baseDepth = ((curveOffset mod 5) / 5) * 0.5 + 0.1 with curveOffset =
\* i + layer * 10, and over the curves drawn curveOffset mod 5 takes exactly
\* the residues 0, 1, 2, so baseDepth takes three bands: 0.1, 0.2 and
\* 0.30000000000000004; every curve point has 0 <= y <= height * baseDepth
C23_DepthBands ==
    /\ \A k \in CurvesOf(canvas) :
          LET c == canvas[k]
          IN  /\ c.offset = c.index + (c.layer * 10)
              /\ c.baseDepth = DepthBands[(c.offset % 5) + 1]
              /\ c.stop2 = DepthLimits[(c.offset % 5) + 1]
              /\ \A i \in DOMAIN c.ys :
                    /\ c.values[i] >= 0
                    /\ DCmp(DZero, c.ys[i]) <= 0
                    /\ DCmp(c.ys[i], c.stop2) <= 0
    /\ pc = "rendered" =>
          /\ {canvas[k].offset % 5 : k \in CurvesOf(canvas)} = 0 .. 2
          /\ {canvas[k].baseDepth : k \in CurvesOf(canvas)} =
                {DepthBands[1], DepthBands[2], DepthBands[3]}

\* a finished rendering with a curve point strictly inside the band of the
\* residue 2
C23_Witness ==
    /\ pc = "rendered"
    /\ \E k \in CurvesOf(canvas) :
          /\ canvas[k].baseDepth = DepthBands[3]
          /\ \E i \in DOMAIN canvas[k].ys :
                /\ DCmp(DZero, canvas[k].ys[i]) < 0
                /\ DCmp(canvas[k].ys[i], canvas[k].stop2) < 0

-----------------------------------------------------------------------------
(* C24: the accounting of the generate command *)

\* the number of results that threw, and the files of those that did not
RECURSIVE CountThrown(_)
CountThrown(rs) ==
    IF rs = <<>> THEN 0
    ELSE (IF Head(rs).threw THEN 1 ELSE 0) + CountThrown(Tail(rs))

RECURSIVE SumFiles(_)
SumFiles(rs) ==
    IF rs = <<>> THEN 0
    ELSE (IF Head(rs).threw THEN 0 ELSE Head(rs).files) + SumFiles(Tail(rs))

\* the loop over the items has been entered
InLoop == batch # Nil /\ batch.total >= 0

\* the counters of the loop: successful + failed is the number of items
\* gone through, failed counts the items that threw, imagesGenerated is the
\* sum of the lengths of the lists the other items returned
Counters ==
    LET n == Len(batch.results)
    IN  /\ batch.successful + batch.failed = n
        /\ batch.failed = CountThrown(batch.results)
        /\ batch.imagesGenerated = SumFiles(batch.results)
        /\ n = IF pc \in {"idle", "exited"} THEN nreq ELSE nreq - 1

-----------------------------------------------------------------------------
(* C30: the failure of a format *)

\* C30 as stated: a format that fails is caught and logged and the formats
\* after it are still attempted; the item does not throw and returns the
\* paths of the formats that did not fail, so an item whose every format
\* failed returns the empty list, is counted as successful, and does not
\* make the exit code non-zero
C30_Original ==
    InLoop =>
        /\ \A r \in {batch.results[k] : k \in 1 .. Len(batch.results)}
                      \cup ({batch.settled} \ {Nil}) :
                  r.failedFormats > 0 =>
                      /\ ~ r.threw
                      /\ r.attempted = Len(config.formats)
                      /\ r.files = Len(config.formats) - r.failedFormats
        /\ batch.successful >=
              Cardinality({k \in 1 .. Len(batch.results) :
                              batch.results[k].failedFormats > 0})
        /\ (/\ pc = "exited"
            /\ \E k \in 1 .. Len(batch.results) :
                  batch.results[k].failedFormats = Len(config.formats)
            /\ \A k \in 1 .. Len(batch.results) :
                  batch.results[k].threw =>
                      batch.results[k].failedFormats > 0)
              => batch.exit.code = 0

-----------------------------------------------------------------------------
(* C25: fetchAllPosts *)

\* the posts of the pages from .. to of a site, in page order
RECURSIVE PostsOfPages(_, _, _)
PostsOfPages(site, from, to) ==
    IF from > to THEN <<>>
    ELSE PagePosts(site, from) \o PostsOfPages(site, from + 1, to)

\* the pages requested so far are 1, 2, .. in order, none twice, none
\* skipped, and none beyond the page after the last; the list returned holds
\* every post of the site once, in page order; after an error nothing is
\* cached
FetchSafe ==
    wp # Nil =>
        /\ \A k \in 1 .. Len(wp.requests) : wp.requests[k] = k
        /\ Len(wp.requests) <= wp.site.pages + 1
        /\ pc = "returned" =>
              /\ wp.returned = {PostsOfPages(wp.site, 1, wp.site.pages)}
              /\ wp.cachedPosts = wp.returned
        /\ pc = "failed" =>
              /\ wp.cachedPosts = {}
              /\ wp.returned = {}

\* C25 as stated: against a site of N >= 1 pages that reports
\* X-WP-TotalPages = N, or answers page N + 1 with an empty list or HTTP 400,
\* the loop of fetchAllPosts terminates, requests the pages 1, 2, .. in
\* increasing order without repeating or skipping one, returns every post
\* once in page order, and any other response that is not OK aborts with an
\* error and caches nothing
C25_Original ==
    /\ [] FetchSafe
    /\ (pc \in {"fetching", "parsing"}) ~> (pc \in {"returned", "failed"})

-----------------------------------------------------------------------------
(* C26: the master canvas and the 100 ms timer *)

\* C26 as stated: under every interleaving of the p5 callbacks, the timers
\* and further clicks on Generate, createCroppedVersions reads the master
\* canvas only after the master sketch has finished its three render steps,
\* and no landscape or square canvas is derived from a master that is not
\* fully rendered or that cleanupSketches has removed
C26_Original ==
    web # Nil =>
        /\ \A k \in 1 .. Len(web.reads) : web.reads[k].state = "rendered"
        /\ web.landscape # Nil => web.landscape.state = "rendered"
        /\ web.square # Nil => web.square.state = "rendered"

-----------------------------------------------------------------------------
(* C27: the same shape kinds in every layer *)

\* the shapes painted so far
AllShapes == {k \in 1 .. Len(canvas) : canvas[k].op = "shape"}

\* C27: the selector of flow f is the same in every layer, for every integer
\* value of smoothness * 100, so the shapes painted for the same flow index
\* in different layers have the same kind and each layer paints the same
\* sequence of kinds (the shape of flow f of layer 0 is at position f + 2 of
\* the paint log, after the background)
C27_SameKinds ==
    pc \in {"flows", "texture", "rendered"} =>
        /\ \A f \in 0 .. (flows.c.numFlows - 1) :
           \A l \in 0 .. (flows.c.numLayers - 1) :
           \A sm \in 0 .. 100 :
              shapeSelector(FlowOffset(f, l), sm)
                = shapeSelector(FlowOffset(f, 0), sm)
        /\ \A k \in AllShapes :
              canvas[k].kind = canvas[canvas[k].flow + 2].kind

\* a rendering of more than three layers whose layers hold shapes of
\* different kinds
C27_Witness ==
    /\ pc = "rendered"
    /\ flows.c.numLayers > 3
    /\ \E k1, k2 \in AllShapes :
          /\ canvas[k1].layer = 0
          /\ canvas[k2].layer = 0
          /\ canvas[k1].kind # canvas[k2].kind
    /\ \E k1, k2 \in AllShapes :
          /\ canvas[k1].layer # canvas[k2].layer
          /\ canvas[k1].flow = canvas[k2].flow
          /\ canvas[k1].kind = "star"
          /\ canvas[k2].kind = "star"

-----------------------------------------------------------------------------
(* C28: the draws of one render *)

\* the generator after n calls of random(); the count is halved and the
\* first half is evaluated before the second starts
RECURSIVE LcgSteps(_, _)
LcgSteps(g, n) ==
    IF n = 0 THEN g
    ELSE IF n = 1 THEN random(g)
    ELSE CHOOSE r \in {LcgSteps(x, n - (n \div 2)) :
                          x \in {LcgSteps(g, n \div 2)}} : TRUE

\* C28: a render takes three draws from the generator of the renderer for
\* each flow and none anywhere else: the noise table is built from a
\* generator of its own, and the shapes, the curves and the texture draw
\* nothing; after generate() the generator is the seed advanced 3 * numLayers
\* * numFlows times, with numLayers = max(3, floor(layers)) in 3 .. 10 and
\* numFlows = floor(5 + density * 10) in 5 .. 15
C28_Draws ==
    pc \in {"flows", "texture", "rendered"} =>
        LET numLayers == IF visualParams.p.layers < 3 THEN 3
                         ELSE visualParams.p.layers
            numFlows == 5 + ((visualParams.p.density * 10) \div 1000)
            seed == Word(visualParams.p.seed)
        IN  /\ numLayers \in 3 .. 10
            /\ numFlows \in 5 .. 15
            /\ rng.seed = seed
            /\ noise.permutation = generatePermutation(seed)
            /\ pc = "flows" =>
                  ndraws = 3 * ((flows.layer * numFlows) + flows.flow)
            /\ pc \in {"texture", "rendered"} =>
                  /\ ndraws = 3 * numLayers * numFlows
                  /\ rng = LcgSteps(SeededRandom(seed),
                                    3 * numLayers * numFlows)

\* a finished render of ten layers of fifteen flows: 450 draws
C28_Witness ==
    /\ pc = "rendered"
    /\ ndraws = 450
    /\ rng = LcgSteps(SeededRandom(Word(visualParams.p.seed)), 450)

-----------------------------------------------------------------------------
(* C29: the table reads of get() *)

\* C29: for every sample point with x, y >= 0, X and Y are in 0 .. 255 and
\* each of the eight reads of the table in get() uses an index in 0 .. 511,
\* an index the 512-entry table has, so every corner hash is a table entry
C29_ReadsInTable ==
    sample # Nil =>
        /\ sample.reads.X \in 0 .. 255
        /\ sample.reads.Y \in 0 .. 255
        /\ Len(sample.reads.indexes) = 8
        /\ \A k \in 1 .. 8 :
               /\ sample.reads.indexes[k] \in 0 .. 511
               /\ sample.reads.indexes[k] \in DOMAIN noise.permutation
        /\ sample.corners.aa = noise.permutation[sample.reads.indexes[2]]
        /\ sample.corners.ab = noise.permutation[sample.reads.indexes[4]]
        /\ sample.corners.ba = noise.permutation[sample.reads.indexes[6]]
        /\ sample.corners.bb = noise.permutation[sample.reads.indexes[8]]
        /\ \A h \in {sample.corners.aa, sample.corners.ab,
                     sample.corners.ba, sample.corners.bb} : h \in 0 .. 255

\* a sample in the last cell of both axes: X + 1 is 256, and the outer
\* reads of ba and bb fall in the copied half of the table
C29_Witness ==
    /\ sample # Nil
    /\ sample.pt.xi = 255
    /\ sample.pt.yi = 255
    /\ sample.reads.indexes[5] = 256
    /\ sample.reads.indexes[6] >= 256
    /\ sample.reads.indexes[8] >= 256

=============================================================================
